---- MODULE Spec2Model ----
(***************************************************************************)
(* Model of the podcast ingestion pipeline of Jiliac/podcast_rag:          *)
(*   src/src/audio_scrap/main.py  feed -> audio -> transcript store        *)
(*   src/src/embed/main.py        transcript store -> vector index         *)
(* Texts are sequences of one-character strings, so that strip() and the   *)
(* space-joined concatenation are computed, not assumed.                    *)
(***************************************************************************)
EXTENDS Integers, Sequences, FiniteSets, Bags, TLC

(***************************************************************************)
(* Bounds of the model.                                                    *)
(***************************************************************************)
\* durations explored reach MaxWhole whole segments (plus a remainder)
MaxWhole == 2

(***************************************************************************)
(* Program constants.                                                      *)
(***************************************************************************)
\* audio_scrap/main.py:14
EPISODES_TO_PROCESS == 4
\* audio_scrap/main.py:105-106   limit_mb * 1024 * 1024
limit_bytes == 25 * 1024 * 1024
\* audio_scrap/main.py:132       10 * 60
chunk_duration_s == 10 * 60

\* Python's None, as a value comparable with texts
None == <<"None">>

(***************************************************************************)
(* Text helpers (Python str semantics).                                    *)
(***************************************************************************)
RECURSIVE lstrip(_)
lstrip(s) == IF s # <<>> /\ Head(s) = " " THEN lstrip(Tail(s)) ELSE s

RECURSIVE rstrip(_)
rstrip(s) ==
  IF s # <<>> /\ s[Len(s)] = " " THEN rstrip(SubSeq(s, 1, Len(s) - 1)) ELSE s

\* str.strip()
strip(s) == rstrip(lstrip(s))

\* truth value of an optional string: None and "" are false
Truthy(x) == x # None /\ x # <<>>

\* texts the transcription service returns in the transcribe_audio study
TextsT == { <<>>, <<"a">>, <<"b">>, <<" ">> }

\* file sizes around the 25 MiB limit
FileSizes == { 0, limit_bytes - 1, limit_bytes, limit_bytes + 1 }

\* durations in whole seconds (a float duration d and floor(d) give the same
\* int(d / chunk_duration_s)): around every multiple of the segment length
Durations ==
  { k * chunk_duration_s + r : k \in 0 .. MaxWhole, r \in {0, 1, chunk_duration_s - 1} }

(***************************************************************************)
(* State of one transcribe_audio invocation.                               *)
(***************************************************************************)
VARIABLES
  tpc,                    \* position in transcribe_audio
  filepath,               \* argument
  duration,               \* local, line 129 (whole seconds)
  num_chunks,             \* local, line 133
  seg_i,                  \* loop variable i, line 138
  temp_files,             \* local list, line 125
  full_transcription,     \* local, line 135
  previous_transcription, \* local, line 136
  transcription,          \* value returned to the caller
  chunk_files,            \* segment files present on disk
  t_path,                 \* "direct" or "chunked" once the size is checked
  file_size,              \* local, line 108: os.path.getsize(filepath)
  t_error,                \* an exception was caught (lines 119, 163)
  requests,               \* transcription requests sent in this invocation
  outputs                 \* texts returned for the segments, in order

tvars == << tpc, filepath, duration, num_chunks, seg_i, temp_files, full_transcription,
            previous_transcription, transcription, chunk_files, t_path, file_size, t_error,
            requests, outputs >>

\* line 140: f"{os.path.splitext(filepath)[0]}_chunk_{i}.mp3"
chunk_filepath(path, i) == [base |-> path, chunk |-> i]

\* mutated variant of line 133: the ceiling of duration / chunk_duration_s
NumChunksCeil(d) == (d + chunk_duration_s - 1) \div chunk_duration_s

\* line 133: int(duration / chunk_duration_s) + 1
NumChunks(d) == (d \div chunk_duration_s) + 1

\* entry state of transcribe_audio(path)
T_Enter(path) ==
  /\ tpc' = "size"
  /\ filepath' = path
  /\ duration' = 0
  /\ num_chunks' = 0
  /\ seg_i' = 0
  /\ temp_files' = <<>>
  /\ full_transcription' = <<>>
  /\ previous_transcription' = <<>>
  /\ transcription' = None
  /\ t_path' = ""
  /\ file_size' = 0
  /\ t_error' = FALSE
  /\ requests' = <<>>
  /\ outputs' = <<>>
  /\ UNCHANGED chunk_files

\* lines 100-110, 123-125: the None guard and the size check
T_SizeCheck(sizes) ==
  /\ tpc = "size"
  /\ IF filepath = None
       THEN /\ tpc' = "ret"
            /\ t_path' = ""
            /\ file_size' = 0
       ELSE \E size \in sizes :
              /\ tpc' = IF size < limit_bytes THEN "direct" ELSE "probe"
              /\ t_path' = IF size < limit_bytes THEN "direct" ELSE "chunked"
              /\ file_size' = size
  /\ UNCHANGED << filepath, duration, num_chunks, seg_i, temp_files, full_transcription,
                  previous_transcription, transcription, chunk_files, t_error,
                  requests, outputs >>

\* lines 111-121: one call on the whole file
T_Direct(texts) ==
  /\ tpc = "direct"
  /\ requests' = Append(requests, [seg |-> -1, prompt |-> <<>>])
  /\ \/ \E t \in texts : transcription' = t /\ t_error' = FALSE
     \/ transcription' = None /\ t_error' = TRUE   \* except Exception: return None
  /\ tpc' = "ret"
  /\ UNCHANGED << filepath, duration, num_chunks, seg_i, temp_files, full_transcription,
                  previous_transcription, chunk_files, t_path, file_size, outputs >>

\* lines 128-136: probe the duration, set up the loop
T_Probe(durations) ==
  /\ tpc = "probe"
  /\ \/ \E d \in durations :
          /\ duration' = d
          /\ num_chunks' = NumChunks(d)
          /\ IF NumChunks(d) > 0
               THEN tpc' = "extract" /\ UNCHANGED transcription
               ELSE tpc' = "finally" /\ transcription' = strip(<<>>)
          /\ UNCHANGED t_error
     \/ /\ tpc' = "finally"            \* ffmpeg.probe raised
        /\ t_error' = TRUE
        /\ UNCHANGED << duration, num_chunks, transcription >>
  /\ UNCHANGED << filepath, seg_i, temp_files, full_transcription,
                  previous_transcription, chunk_files, t_path, file_size, requests, outputs >>

\* lines 139-148: register the segment file, then extract it
T_Extract ==
  /\ tpc = "extract"
  /\ seg_i < num_chunks
  /\ temp_files' = Append(temp_files, chunk_filepath(filepath, seg_i))
  /\ \/ /\ chunk_files' = chunk_files \cup {chunk_filepath(filepath, seg_i)}
        /\ tpc' = "whisper"
        /\ UNCHANGED t_error
     \/ \* ffmpeg failed: its output file may or may not have been created
        /\ \E left \in BOOLEAN :
             chunk_files' = IF left
                              THEN chunk_files \cup {chunk_filepath(filepath, seg_i)}
                              ELSE chunk_files
        /\ tpc' = "finally"
        /\ t_error' = TRUE
  /\ UNCHANGED << filepath, duration, num_chunks, seg_i, full_transcription,
                  previous_transcription, transcription, t_path, file_size, requests, outputs >>

\* mutated variant of line 156: the accumulated transcript as prompt
PromptAccumulated == full_transcription

\* line 156: prompt=previous_transcription
Prompt == previous_transcription

\* mutated variant of line 158: the new text is put in front
AccumulateInFront(full, t) == t \o <<" ">> \o full

\* line 158: full_transcription += transcription_part + " "
Accumulate(full, t) == full \o t \o <<" ">>

\* lines 150-161: transcribe the segment with the previous segment's text as
\* prompt; after the last segment return full_transcription.strip()
T_Whisper(texts) ==
  /\ tpc = "whisper"
  /\ requests' = Append(requests, [seg |-> seg_i, prompt |-> Prompt])
  /\ \/ \E t \in texts :
          /\ full_transcription' = Accumulate(full_transcription, t)
          /\ previous_transcription' = t
          /\ outputs' = Append(outputs, t)
          /\ seg_i' = seg_i + 1
          /\ IF seg_i + 1 < num_chunks
               THEN /\ tpc' = "extract"
                    /\ UNCHANGED transcription
               ELSE /\ tpc' = "finally"
                    /\ transcription' = strip(Accumulate(full_transcription, t))
          /\ UNCHANGED t_error
     \/ \* the request raised: except Exception -> return None
        /\ tpc' = "finally"
        /\ t_error' = TRUE
        /\ UNCHANGED << full_transcription, previous_transcription, outputs,
                        seg_i, transcription >>
  /\ UNCHANGED << filepath, duration, num_chunks, temp_files, chunk_files, t_path, file_size >>

\* mutated variant of lines 168-170: the last registered file is kept
RegisteredButLast == { temp_files[k] : k \in 1 .. (Len(temp_files) - 1) }

\* lines 168-170: the files the finally block removes
Registered == { temp_files[k] : k \in 1 .. Len(temp_files) }

\* lines 166-172: remove every registered segment file that exists
T_Finally ==
  /\ tpc = "finally"
  /\ chunk_files' = chunk_files \ Registered
  /\ tpc' = "ret"
  /\ UNCHANGED << filepath, duration, num_chunks, seg_i, temp_files, full_transcription,
                  previous_transcription, transcription, t_path, file_size, t_error, requests,
                  outputs >>

(***************************************************************************)
(* audio_scrap main: feed, audio directory, transcript store.              *)
(***************************************************************************)
VARIABLES
  feed,                   \* admitted episodes of the feed, in feed order
  results_file,           \* data/transcriptions.json: sequence of records
  audio_files,            \* keys of the files present in data/audio
  pc,                     \* position of audio_scrap main ("idle": not running)
  episodes,               \* local of main, line 178
  episodes_to_process,    \* local of main, line 194-197
  processed_data,         \* local of main, line 186-191
  newly_processed_data,   \* local of main, line 201
  ep_idx,                 \* position of the loop of line 202 (1-based)
  attempted,              \* episodes the loop has started on in this run
  failed_titles,          \* titles whose chunked transcription failed in this run
  file_at_start,          \* the store file when the run started
  scrap_runs,             \* number of transcription runs started
  fetch_error             \* the run's request for the feed failed

svars == << feed, results_file, audio_files, pc, episodes, episodes_to_process,
            processed_data, newly_processed_data, ep_idx, attempted,
            failed_titles, file_at_start, scrap_runs, fetch_error >>

\* characters kept by line 76: c.isalpha() or c.isdigit() or c == " "
KeptChars == { "t", "0", "1", "2", "3", "4", "5", "6", "7", "8", "9", " " }

RECURSIVE KeepChars(_)
KeepChars(s) ==
  IF s = <<>> THEN <<>>
  ELSE IF Head(s) \in KeptChars THEN <<Head(s)>> \o KeepChars(Tail(s))
       ELSE KeepChars(Tail(s))

\* lines 75-78: the file key derived from the title
safe_filename(title) == rstrip(KeepChars(title))

\* the k-th title of the model
TitleName(k) == << "t", ToString(k) >>

\* datetime.isoformat(), line 214
isoformat(d) == << "iso", d >>

\* publish dates of a feed of n entries: ascending, descending, all equal,
\* alternating
DatePatterns == 1 .. 4
DateOf(p, i, n) ==
  CASE p = 1 -> i
    [] p = 2 -> n + 1 - i
    [] p = 3 -> 1
    [] p = 4 -> (i % 2) + 1

\* a feed of n admitted entries over k distinct titles (k < n: titles repeat)
MkFeed(n, k, p) ==
  [ i \in 1 .. n |->
      [ title |-> TitleName(((i - 1) % k) + 1), url |-> i, date |-> DateOf(p, i, n) ] ]

Feeds(maxlen) ==
  { MkFeed(n, k, p) : n \in 0 .. maxlen, k \in 1 .. maxlen, p \in DatePatterns }

Titles(records) == { records[k].title : k \in 1 .. Len(records) }

\* mutated variant of line 194: nothing is filtered out
NotProcessedAll(eps, processed_titles) == eps

\* line 194: [e for e in episodes if e["title"] not in processed_titles]
NotProcessed(eps, processed_titles) ==
  SelectSeq(eps, LAMBDA e : e.title \notin processed_titles)

\* insertion of e behind every entry at least as new (stable, newest first)
InsertNewestFirst(sorted, e) ==
  LET p == Cardinality({ k \in 1 .. Len(sorted) : sorted[k].date >= e.date })
  IN  SubSeq(sorted, 1, p) \o << e >> \o SubSeq(sorted, p + 1, Len(sorted))

\* mutated variant of line 197: oldest first
RECURSIVE SortOldestFirst(_)
SortOldestFirst(s) ==
  IF s = <<>> THEN <<>>
  ELSE LET rest == SortOldestFirst(Tail(s))
           p == Cardinality({ k \in 1 .. Len(rest) : rest[k].date < Head(s).date })
       IN  SubSeq(rest, 1, p) \o << Head(s) >> \o SubSeq(rest, p + 1, Len(rest))

\* line 197: list.sort(key=date, reverse=True), a stable sort
RECURSIVE SortNewestFirst(_)
SortNewestFirst(s) ==
  IF s = <<>> THEN <<>>
  ELSE InsertNewestFirst(SortNewestFirst(SubSeq(s, 1, Len(s) - 1)), s[Len(s)])

Min(a, b) == IF a < b THEN a ELSE b

\* mutated variant of line 202: no cap
SliceAll(s) == Len(s)

\* line 202: episodes_to_process[:EPISODES_TO_PROCESS], its length
SliceLen(s) == Min(Len(s), EPISODES_TO_PROCESS)

\* no transcribe_audio invocation is active
T_Reset ==
  /\ tpc' = "idle"
  /\ filepath' = None
  /\ duration' = 0
  /\ num_chunks' = 0
  /\ seg_i' = 0
  /\ temp_files' = <<>>
  /\ full_transcription' = <<>>
  /\ previous_transcription' = <<>>
  /\ transcription' = None
  /\ t_path' = ""
  /\ file_size' = 0
  /\ t_error' = FALSE
  /\ requests' = <<>>
  /\ outputs' = <<>>
  /\ UNCHANGED chunk_files

\* the locals of main are dead outside a run
Scrap_ClearLocals ==
  /\ episodes' = <<>>
  /\ episodes_to_process' = <<>>
  /\ processed_data' = <<>>
  /\ newly_processed_data' = <<>>
  /\ ep_idx' = 0
  /\ attempted' = <<>>
  /\ failed_titles' = {}

\* mutated variant of lines 23-25: the error is logged and the function
\* goes on
FetchResultInSpiteOfError(admitted, request_fails) == admitted

\* lines 20-25 and 67: the admitted episodes, or [] when the request failed
FetchResult(admitted, request_fails) ==
  IF request_fails THEN <<>> ELSE admitted

\* lines 175-201: fetch the feed (empty on a transport error), load the
\* store, select and sort the episodes to process
Scrap_Begin ==
  /\ pc = "idle"
  /\ file_at_start' = results_file
  /\ \E request_fails \in BOOLEAN :
       LET fetched == FetchResult(feed, request_fails)
       IN  /\ fetch_error' = request_fails
           /\ IF fetched = <<>>
                THEN /\ pc' = "scrap_done"                       \* line 180
                     /\ Scrap_ClearLocals
                ELSE /\ pc' = "scrap_loop"
                     /\ episodes' = fetched
                     /\ processed_data' = results_file
                     /\ episodes_to_process' =
                          SortNewestFirst(NotProcessed(fetched, Titles(results_file)))
                     /\ newly_processed_data' = <<>>
                     /\ ep_idx' = 1
                     /\ attempted' = <<>>
                     /\ failed_titles' = {}
  /\ UNCHANGED << feed, results_file, audio_files >>
  /\ UNCHANGED tvars

\* a run of the script, of at most maxruns in a behaviour
Scrap_Start(maxruns) ==
  /\ scrap_runs < maxruns
  /\ scrap_runs' = scrap_runs + 1
  /\ Scrap_Begin

\* lines 202-210 with download_audio (lines 70-95): take the next episode,
\* fetch its audio unless the file exists, and enter transcribe_audio
Scrap_Download ==
  /\ pc = "scrap_loop"
  /\ ep_idx <= SliceLen(episodes_to_process)
  /\ LET episode == episodes_to_process[ep_idx]
         key == safe_filename(episode.title)
     IN  /\ attempted' = Append(attempted, episode)
         /\ \/ /\ key \in audio_files                      \* line 80
               /\ UNCHANGED audio_files
               /\ T_Enter(key)
               /\ pc' = "scrap_transcribe"
               /\ UNCHANGED ep_idx
            \/ /\ key \notin audio_files                   \* lines 86-92
               /\ audio_files' = audio_files \cup {key}
               /\ T_Enter(key)
               /\ pc' = "scrap_transcribe"
               /\ UNCHANGED ep_idx
            \/ \* lines 93-95: transport error, before or after open(filepath)
               /\ key \notin audio_files
               /\ \E opened \in BOOLEAN :
                    audio_files' = IF opened THEN audio_files \cup {key}
                                   ELSE audio_files
               /\ ep_idx' = ep_idx + 1                     \* line 208
               /\ UNCHANGED pc
               /\ UNCHANGED tvars
  /\ UNCHANGED << feed, results_file, episodes, episodes_to_process,
                  processed_data, newly_processed_data, failed_titles,
                  file_at_start, scrap_runs,
                  fetch_error >>

\* mutated variant of lines 212-217: the record is built from the first
\* episode of the list, not from the loop's
new_data_item_of_first(episode, text) ==
  [ title |-> episodes_to_process[1].title,
    date |-> isoformat(episodes_to_process[1].date),
    audio_url |-> episodes_to_process[1].url, transcription |-> text ]

\* lines 212-217
new_data_item(episode, text) ==
  [ title |-> episode.title, date |-> isoformat(episode.date),
    audio_url |-> episode.url, transcription |-> text ]

\* lines 210-219: append a record when the transcription is non-empty
Scrap_Record ==
  /\ pc = "scrap_transcribe"
  /\ tpc = "ret"
  /\ LET episode == episodes_to_process[ep_idx]
     IN  /\ IF Truthy(transcription)
              THEN /\ processed_data' =
                        Append(processed_data, new_data_item(episode, transcription))
                   /\ newly_processed_data' =
                        Append(newly_processed_data, new_data_item(episode, transcription))
              ELSE UNCHANGED << processed_data, newly_processed_data >>
         /\ failed_titles' = IF t_error /\ t_path = "chunked"
                               THEN failed_titles \cup {episode.title}
                               ELSE failed_titles
  /\ ep_idx' = ep_idx + 1
  /\ pc' = "scrap_loop"
  /\ T_Reset
  /\ UNCHANGED << feed, results_file, audio_files, episodes,
                  episodes_to_process, attempted, file_at_start, scrap_runs,
                  fetch_error >>

\* mutated variant of line 224: only the new records are written
SavedNewOnly == newly_processed_data

\* line 224: json.dump(processed_data, f)
Saved == processed_data

\* lines 221-224: rewrite the store file
Scrap_Save ==
  /\ pc = "scrap_loop"
  /\ ep_idx > SliceLen(episodes_to_process)
  /\ results_file' = Saved
  /\ pc' = "scrap_done"
  /\ UNCHANGED << feed, audio_files, episodes, episodes_to_process,
                  processed_data, newly_processed_data, ep_idx, attempted,
                  failed_titles, file_at_start, scrap_runs,
                  fetch_error >>
  /\ UNCHANGED tvars

\* the script ends
Scrap_Exit ==
  /\ pc = "scrap_done"
  /\ pc' = "idle"
  /\ Scrap_ClearLocals
  /\ file_at_start' = <<>>
  /\ fetch_error' = FALSE
  /\ UNCHANGED << feed, results_file, audio_files, scrap_runs >>
  /\ UNCHANGED tvars

(***************************************************************************)
(* embed main: transcript store -> vector index.                           *)
(***************************************************************************)
\* embed/main.py:14
EMBEDDING_DIMENSION == 3072

\* embed/main.py:16
UPSERT_BATCH_SIZE == 100

\* an episode's vectors fill at most MaxBatches sub-batches
MaxBatches == 2

\* at most MaxQueryFails existence queries fail in a behaviour
MaxQueryFails == 1

VARIABLES
  index,                  \* the vector index, as the bag of sub-batches
                          \* written to it (every vector gets a fresh id)
  embed_pc,               \* position of embed main ("idle": not running)
  embed_to_process,       \* episodes_to_process of embed main, as positions
                          \* of the records in the loaded store
  e_idx,                  \* position of the loop of line 108 (1-based)
  vectors_to_upsert,      \* local, line 128: the vectors of the episode, each
                          \* named by the position of its chunk
  chunks,                 \* local, line 121: the chunks of the episode, as
                          \* their number
  embedding_errors,       \* positions of the chunks whose embedding call
                          \* raised (line 147)
  batch_start,            \* loop variable i of line 160
  index_at_start,         \* the index when the run started
  query_failed,           \* titles whose existence query failed in this run
  embed_calls,            \* bag of titles: embedding calls of this run
  upsert_calls,           \* bag of titles: upsert calls of this run
  unwritten,              \* vectors left out by an upsert that stopped after
                          \* a sub-batch was written
  ever_failed,            \* titles whose existence query failed in some run
  query_fails,            \* number of existence queries that failed so far
  index_dimension,        \* dimension the index was created with
  embed_raised,           \* the run ended by an exception leaving main
  record_calls            \* calls of this run, as pairs of the record's
                          \* position in the store and "chunk", "embed" or
                          \* "upsert"

evars == << index, embed_pc, embed_to_process, e_idx, vectors_to_upsert,
            chunks, embedding_errors,
            batch_start, index_at_start, query_failed, embed_calls,
            upsert_calls, unwritten, ever_failed, query_fails,
            index_dimension, embed_raised, record_calls >>

\* dimensions an existing index can have: the one of the embedding model
\* (the only one setup_pinecone creates, line 39) or another
IndexDimensions == { EMBEDDING_DIMENSION, EMBEDDING_DIMENSION \div 2 }

\* the index refuses vectors of another dimension than its own, in a query
\* (line 74) as in an upsert (line 165)
DimensionMismatch == index_dimension # EMBEDDING_DIMENSION

\* mutated variant of line 115: only the empty transcription is skipped
EmptyOnly(text) == ~ Truthy(text)

\* line 115: not transcription or not transcription.strip()
Blank(text) == ~ Truthy(text) \/ ~ Truthy(strip(text))

\* numbers of chunks the chunker returns: none, one, one more than fills
\* 1 .. MaxBatches - 1 sub-batches
ChunkCounts ==
  {0, 1} \cup { b * UPSERT_BATCH_SIZE + 1 : b \in 1 .. (MaxBatches - 1) }

\* chunks whose embedding call fails: none, the first, all
BadSets(n) == { {}, {k \in 1 .. n : k = 1}, 1 .. n }

\* mutated variant of lines 129-149: the first failing embedding call ends
\* the loop over the chunks
EmbeddedUpToError(n, bad) ==
  SelectSeq([k \in 1 .. n |-> k], LAMBDA k : \A j \in 1 .. k : j \notin bad)

\* lines 128-149: the try is inside the loop over the chunks, so a failing
\* embedding call leaves out its own chunk and no other
Embedded(n, bad) == SelectSeq([k \in 1 .. n |-> k], LAMBDA k : k \notin bad)

\* lines 138-146: the vectors of a sub-batch share the episode's metadata;
\* ks are the positions of their chunks in the chunking of record src
sub_batch(src, episode, ks) ==
  [ episode_title |-> episode.title, episode_date |-> episode.date,
    src |-> src, ks |-> ks ]

\* titles with at least one vector (no sub-batch is empty)
IndexedTitles(idx) == { b.episode_title : b \in BagToSet(idx) }

\* number of vectors in the index
VectorCount(idx) ==
  LET RECURSIVE Sum(_)
      Sum(S) == IF S = {} THEN 0
                ELSE LET b == CHOOSE x \in S : TRUE
                     IN  Len(b.ks) * CopiesIn(b, idx) + Sum(S \ {b})
  IN  Sum(BagToSet(idx))

\* chunk k of record src has a vector in the index
ChunkIndexed(idx, src, k) ==
  \E b \in BagToSet(idx) : b.src = src /\ \E m \in 1 .. Len(b.ks) : b.ks[m] = k

\* mutated variant of lines 80-83: the title is not looked at
AlreadyEmbeddedNever(idx, title, fails) == FALSE

\* mutated variant of lines 81-83: a failed query counts as embedded
AlreadyEmbeddedOnFailure(idx, title, fails) ==
  IF fails THEN TRUE ELSE title \in IndexedTitles(idx)

\* lines 63-83: episode_already_embedded; a failed query gives False
episode_already_embedded(idx, title, fails) ==
  IF fails THEN FALSE ELSE title \in IndexedTitles(idx)

Embed_ClearLocals ==
  /\ embed_to_process' = <<>>
  /\ e_idx' = 0
  /\ vectors_to_upsert' = <<>>
  /\ chunks' = 0
  /\ embedding_errors' = {}
  /\ batch_start' = 0
  /\ query_failed' = {}
  /\ embed_calls' = EmptyBag
  /\ upsert_calls' = EmptyBag
  /\ record_calls' = {}

\* lines 86-103: set up the index, load the store, keep the records whose
\* title has no vector yet (one existence query per record)
Embed_Start ==
  /\ embed_pc = "idle"
  /\ index_at_start' = index
  /\ \/ \* setup_pinecone raised (line 30), or the store is empty (line 93)
        /\ \E setup_fails \in BOOLEAN :
             /\ setup_fails \/ results_file = <<>>
             /\ embed_raised' = setup_fails
        /\ embed_pc' = "embed_done"
        /\ Embed_ClearLocals
        /\ UNCHANGED << ever_failed, query_fails >>
     \/ /\ results_file # <<>>
        /\ embed_raised' = FALSE
        /\ \E fails \in { S \in SUBSET (1 .. Len(results_file)) :
                             IF DimensionMismatch
                               THEN S = 1 .. Len(results_file)
                               ELSE query_fails + Cardinality(S) <= MaxQueryFails } :
             LET todo == SelectSeq([k \in 1 .. Len(results_file) |-> k],
                           LAMBDA k : ~ episode_already_embedded(
                                          index, results_file[k].title, k \in fails))
                 failed == { results_file[k].title : k \in fails }
             IN  /\ embed_to_process' = todo
                 /\ query_failed' = failed
                 /\ query_fails' = IF DimensionMismatch THEN query_fails
                                    ELSE query_fails + Cardinality(fails)
                 /\ ever_failed' = ever_failed \cup failed
                 /\ embed_pc' = IF todo = <<>> THEN "embed_done" ELSE "embed_loop"
        /\ e_idx' = 1
        /\ vectors_to_upsert' = <<>>
        /\ chunks' = 0
        /\ embedding_errors' = {}
        /\ batch_start' = 0
        /\ embed_calls' = EmptyBag
        /\ upsert_calls' = EmptyBag
        /\ record_calls' = {}
  /\ UNCHANGED << index, unwritten, index_dimension >>

\* lines 108-153: skip an empty transcript, chunk, embed every chunk
Embed_Episode ==
  /\ embed_pc = "embed_loop"
  /\ e_idx <= Len(embed_to_process)
  /\ LET src == embed_to_process[e_idx]
         episode == results_file[src]
     IN  \/ \* line 115: empty or whitespace-only transcription
            /\ Blank(episode.transcription)
            /\ e_idx' = e_idx + 1
            /\ UNCHANGED << embed_pc, vectors_to_upsert, chunks,
                            embedding_errors, embed_calls, record_calls >>
         \/ \* line 123: the chunker raised
            /\ ~ Blank(episode.transcription)
            /\ e_idx' = e_idx + 1
            /\ record_calls' = record_calls \cup { << src, "chunk" >> }
            /\ UNCHANGED << embed_pc, vectors_to_upsert, chunks,
                            embedding_errors, embed_calls >>
         \/ /\ ~ Blank(episode.transcription)
            /\ \E n \in ChunkCounts : \E bad \in BadSets(n) :
                 LET vs == Embedded(n, bad)
                 IN  /\ embed_calls' = IF n = 0 THEN embed_calls
                                        ELSE embed_calls (+) [t \in {episode.title} |-> n]
                     /\ record_calls' = record_calls \cup { << src, "chunk" >> }
                            \cup (IF n = 0 THEN {} ELSE { << src, "embed" >> })
                     /\ vectors_to_upsert' = vs
                     /\ chunks' = n
                     /\ embedding_errors' = bad
                     /\ IF vs = <<>>                                \* line 151
                          THEN e_idx' = e_idx + 1 /\ UNCHANGED embed_pc
                          ELSE embed_pc' = "embed_upsert" /\ UNCHANGED e_idx
  /\ batch_start' = 0
  /\ UNCHANGED << index, embed_to_process, index_at_start, query_failed,
                  upsert_calls, unwritten, ever_failed, query_fails,
                  index_dimension, embed_raised >>

\* the vectors of the episode from position from + 1 on, which an upsert
\* that stops at from leaves out
LeftOut(from) ==
  LET src == embed_to_process[e_idx]
  IN  [ title |-> results_file[src].title, src |-> src,
        ks |-> SubSeq(vectors_to_upsert, from + 1, Len(vectors_to_upsert)) ]

\* mutated variant of line 167: a failed sub-batch is skipped and the loop
\* goes on with the next one
Embed_UpsertGoesOn ==
  /\ embed_pc = "embed_upsert"
  /\ batch_start < Len(vectors_to_upsert)
  /\ LET src == embed_to_process[e_idx]
         episode == results_file[src]
         last == Min(batch_start + UPSERT_BATCH_SIZE, Len(vectors_to_upsert))
         batch == SubSeq(vectors_to_upsert, batch_start + 1, last)
     IN  /\ upsert_calls' = upsert_calls (+) SetToBag({episode.title})
         /\ record_calls' = record_calls \cup { << src, "upsert" >> }
         /\ \/ /\ ~ DimensionMismatch
               /\ index' = index (+) SetToBag({ sub_batch(src, episode, batch) })
            \/ UNCHANGED index
         /\ batch_start' = batch_start + UPSERT_BATCH_SIZE
         /\ IF last < Len(vectors_to_upsert)
              THEN UNCHANGED << embed_pc, e_idx >>
              ELSE embed_pc' = "embed_loop" /\ e_idx' = e_idx + 1
         /\ UNCHANGED unwritten
  /\ UNCHANGED << embed_to_process, vectors_to_upsert, chunks,
                  embedding_errors, index_at_start,
                  query_failed, embed_calls, ever_failed, query_fails,
                  index_dimension, embed_raised >>

\* lines 160-168: upsert the next sub-batch; a failure ends the episode
Embed_Upsert ==
  /\ embed_pc = "embed_upsert"
  /\ batch_start < Len(vectors_to_upsert)
  /\ LET src == embed_to_process[e_idx]
         episode == results_file[src]
         last == Min(batch_start + UPSERT_BATCH_SIZE, Len(vectors_to_upsert))
         batch == SubSeq(vectors_to_upsert, batch_start + 1, last)
     IN  /\ upsert_calls' = upsert_calls (+) SetToBag({episode.title})
         /\ record_calls' = record_calls \cup { << src, "upsert" >> }
         /\ \/ /\ ~ DimensionMismatch
               /\ index' = index (+) SetToBag({ sub_batch(src, episode, batch) })
               /\ batch_start' = batch_start + UPSERT_BATCH_SIZE
               /\ IF last < Len(vectors_to_upsert)
                    THEN UNCHANGED << embed_pc, e_idx >>
                    ELSE embed_pc' = "embed_loop" /\ e_idx' = e_idx + 1
               /\ UNCHANGED unwritten
            \/ \* line 167: the call raised, the remaining sub-batches are dropped
               /\ UNCHANGED << index, batch_start >>
               /\ embed_pc' = "embed_loop"
               /\ e_idx' = e_idx + 1
               /\ unwritten' = IF batch_start > 0
                                 THEN unwritten \cup { LeftOut(batch_start) }
                                 ELSE unwritten
  /\ UNCHANGED << embed_to_process, vectors_to_upsert, chunks,
                  embedding_errors, index_at_start,
                  query_failed, embed_calls, ever_failed, query_fails,
                  index_dimension, embed_raised >>

\* the process dies between two sub-batches of an episode
Embed_Crash ==
  /\ embed_pc = "embed_upsert"
  /\ 0 < batch_start
  /\ batch_start < Len(vectors_to_upsert)
  /\ embed_pc' = "embed_done"
  /\ unwritten' = unwritten \cup { LeftOut(batch_start) }
  /\ UNCHANGED << index, embed_to_process, e_idx, vectors_to_upsert, chunks,
                  embedding_errors, batch_start,
                  index_at_start, query_failed, embed_calls, upsert_calls,
                  ever_failed, query_fails, index_dimension, embed_raised,
                  record_calls >>

\* line 170: every episode was handled
Embed_Finish ==
  /\ embed_pc = "embed_loop"
  /\ e_idx > Len(embed_to_process)
  /\ embed_pc' = "embed_done"
  /\ UNCHANGED << index, embed_to_process, e_idx, vectors_to_upsert, chunks,
                  embedding_errors, batch_start,
                  index_at_start, query_failed, embed_calls, upsert_calls,
                  unwritten, ever_failed, query_fails, index_dimension,
                  embed_raised, record_calls >>

\* the script ends
Embed_Exit ==
  /\ embed_pc = "embed_done"
  /\ embed_pc' = "idle"
  /\ Embed_ClearLocals
  /\ index_at_start' = EmptyBag
  /\ embed_raised' = FALSE
  /\ UNCHANGED << index, unwritten, ever_failed, query_fails, index_dimension >>

(***************************************************************************)
(* download_audio on its own: the audio directory with the files' contents.*)
(***************************************************************************)
\* download_audio is called at most MaxDownloads times
MaxDownloads == 2

VARIABLES
  dl_files,               \* files of data/audio: [key, title, url, whole], the
                          \* title and url of the call that wrote the file and
                          \* whether the body was written to its end
  dl_pc,                  \* position of download_audio ("idle": no call)
  dl_title,               \* argument episode_title
  dl_url,                 \* argument url
  dl_result,              \* value returned: the path, or None
  dl_requests,            \* urls requested by this call
  dl_files_before,        \* the directory when the call started
  dl_calls                \* number of calls so far

dvars == << dl_files, dl_pc, dl_title, dl_url, dl_result, dl_requests,
            dl_files_before, dl_calls >>

\* titles of the calls: two pairs that differ by dropped or trailing
\* characters, and one apart
DlTitles ==
  { << "t", "1" >>, << "t", "1", "!" >>, << "t", "1", " " >>, << "t", "2" >> }

DlUrls == { 1, 2 }

\* mutated variant of line 80: the file is never found
FileExistsNever(files, key) == FALSE

\* line 80: os.path.exists(filepath)
FileExists(files, key) == \E f \in files : f.key = key

\* open(filepath, "wb") creates or empties the file
Opened(files, key, title, url) ==
  { f \in files : f.key # key }
     \cup { [ key |-> key, title |-> title, url |-> url, whole |-> FALSE ] }

\* lines 70-82: derive the path; return it when the file exists
Dl_Call(title, url) ==
  /\ dl_pc = "idle"
  /\ dl_calls < MaxDownloads
  /\ dl_calls' = dl_calls + 1
  /\ dl_title' = title
  /\ dl_url' = url
  /\ dl_files_before' = dl_files
  /\ dl_requests' = <<>>
  /\ IF FileExists(dl_files, safe_filename(title))
       THEN dl_pc' = "ret" /\ dl_result' = safe_filename(title)
       ELSE dl_pc' = "get" /\ dl_result' = None
  /\ UNCHANGED dl_files

\* lines 86-87 and 93-95: the request; a transport or status error gives None
Dl_Get ==
  /\ dl_pc = "get"
  /\ dl_requests' = Append(dl_requests, dl_url)
  /\ \/ dl_pc' = "write" /\ UNCHANGED dl_result
     \/ dl_pc' = "ret" /\ dl_result' = None
  /\ UNCHANGED << dl_files, dl_title, dl_url, dl_files_before, dl_calls >>

\* lines 88-95: the body is written to the file; an error while streaming
\* leaves the file as far as it was written
Dl_Write ==
  /\ dl_pc = "write"
  /\ LET key == safe_filename(dl_title)
     IN  \/ /\ dl_files' = { IF f.key = key THEN [ f EXCEPT !.whole = TRUE ] ELSE f :
                               f \in Opened(dl_files, key, dl_title, dl_url) }
            /\ dl_result' = key
         \/ /\ dl_files' = Opened(dl_files, key, dl_title, dl_url)
            /\ dl_result' = None
  /\ dl_pc' = "ret"
  /\ UNCHANGED << dl_title, dl_url, dl_requests, dl_files_before, dl_calls >>

\* the caller has the result
Dl_Return ==
  /\ dl_pc = "ret"
  /\ dl_pc' = "idle"
  /\ dl_title' = <<>>
  /\ dl_url' = 0
  /\ dl_result' = None
  /\ dl_requests' = <<>>
  /\ dl_files_before' = {}
  /\ UNCHANGED << dl_files, dl_calls >>

Dl_Idle ==
  /\ dl_files = {}
  /\ dl_pc = "idle"
  /\ dl_title = <<>>
  /\ dl_url = 0
  /\ dl_result = None
  /\ dl_requests = <<>>
  /\ dl_files_before = {}
  /\ dl_calls = 0

(***************************************************************************)
(* rag_mcp: the tools get_episode_info and list_episodes over the feed.    *)
(***************************************************************************)
\* episode_info.py:146
max_range_days == 366

\* episode_info.py:144
default_days == 90

\* datetime.now().date() of line 125, as a day number
Today == 400

\* the feed of the tools holds at most MaxInfoFeed admitted episodes
MaxInfoFeed == 4

VARIABLES
  info_feed,              \* admitted episodes of the feed: [title, date], the
                          \* date a datetime [day, tod]
  i_pc,                   \* position of the tool called ("idle": no call)
  i_tool,                 \* the tool called
  i_args,                 \* its arguments, strings
  target_date,            \* local of get_episode_info_by_date, line 180, optional
  start_date,             \* local of list_episodes_in_range, lines 136-144
  end_date,               \* local of list_episodes_in_range, lines 127-134
  i_fetched,              \* episodes returned by the fetch of this call
  i_fetches,              \* number of feed fetches of this call
  i_outcome,              \* how the call ended: [kind, lits, val]; kind is
                          \* "str" for a string returned, lits its literal
                          \* parts and val the value formatted into it;
                          \* kind is "raised" for an exception leaving the tool
  i_cause,                \* which path of the code ended the call
  i_last                  \* [cause, lits] of the call of get_episode_info
                          \* before this one

ivars == << info_feed, i_pc, i_tool, i_args, target_date, start_date, end_date,
            i_fetched, i_fetches, i_outcome, i_cause, i_last >>

\* a date string is modelled as << shape >>, << shape, day >> or
\* << shape, day, tod >>: the shape is the layout of its text, written as the
\* strptime format that accepts it
date_formats ==
  << "%Y-%m-%d", "%Y-%m-%dT%H:%M:%S", "%d/%m/%Y", "%d-%m-%Y", "%Y/%m/%d" >>

\* an optional value: << >> for Python's None, << x >> for the value x
Nothing == << >>

\* datetime.strptime(date_input, fmt): a datetime, or nothing for ValueError
strptime(date_input, fmt) ==
  IF date_input # <<>> /\ date_input[1] = fmt
    THEN << [ day |-> date_input[2],
              tod |-> IF Len(date_input) >= 3 THEN date_input[3] ELSE 0 ] >>
    ELSE Nothing

\* lines 94-111: the first format that parses, else None
RECURSIVE TryFormats(_, _)
TryFormats(date_input, fmts) ==
  IF fmts = <<>> THEN Nothing
  ELSE IF strptime(date_input, Head(fmts)) # Nothing
         THEN strptime(date_input, Head(fmts))
         ELSE TryFormats(date_input, Tail(fmts))

parse_date_input(date_input) == TryFormats(date_input, date_formats)

\* date.isoformat(): the digits of the date, most significant first, in a
\* fixed width
date_isoformat(day) ==
  << (day \div 1000) % 10, (day \div 100) % 10, (day \div 10) % 10, day % 10 >>

\* datetime.isoformat()
datetime_isoformat(dt) == << date_isoformat(dt.day), "T", dt.tod >>

\* comparison of two strings of digits, as Python compares strings
RECURSIVE StrLess(_, _)
StrLess(a, b) ==
  IF b = <<>> THEN FALSE
  ELSE IF a = <<>> THEN TRUE
  ELSE IF Head(a) # Head(b) THEN Head(a) < Head(b)
  ELSE StrLess(Tail(a), Tail(b))

\* mutated variant of line 189: the datetimes are compared whole
SameInstant(a, b) == a = b

\* line 189: episode["date"].date() == target_date.date()
SameDate(a, b) == a.day = b.day

\* mutated variant of line 146: one day more passes
RangeTooLongByTwo(s, e) == (e - s) > max_range_days + 1

\* line 146: (end_date - start_date) > timedelta(days=366)
RangeTooLong(s, e) == (e - s) > max_range_days

\* mutated variant of line 157: the first day of the range is left out
InRangeOpenStart(s, d, e) == s < d /\ d <= e

\* line 157: start_date <= episode_date <= end_date
InRange(s, d, e) == s <= d /\ d <= e

\* lines 158-161
list_item(episode) ==
  [ episode_name |-> episode.title, date |-> date_isoformat(episode.date.day) ]

\* line 164: stable sort by the date string, ascending
RECURSIVE SortByDateString(_)
SortByDateString(items) ==
  IF items = <<>> THEN <<>>
  ELSE LET rest == SortByDateString(SubSeq(items, 1, Len(items) - 1))
           e == items[Len(items)]
           p == Cardinality({ k \in 1 .. Len(rest) : ~ StrLess(e.date, rest[k].date) })
       IN  SubSeq(rest, 1, p) \o << e >> \o SubSeq(rest, p + 1, Len(rest))

\* lines 188-195: the first episode of the target's date, with its date as
\* an ISO string; None when there is none
RECURSIVE FirstOfDate(_, _)
FirstOfDate(eps, target) ==
  IF eps = <<>> THEN Nothing
  ELSE IF SameDate(Head(eps).date, target)
         THEN << [ title |-> Head(eps).title,
                   date |-> datetime_isoformat(Head(eps).date) ] >>
         ELSE FirstOfDate(Tail(eps), target)

\* exceptions of the model: the validation error of list_episodes_in_range
\* and any other error (a parser or client error)
ExceptionClasses == { "ValueError", "RuntimeError" }

\* mutated variant: a handler catches its own class only
HandlesOwnClass(handler, exc) == handler = exc

\* an except clause catches its class and the classes derived from it
Handles(handler, exc) == handler = "Exception" \/ handler = exc

\* the except clauses of the tools, rag_mcp/main.py lines 146, 171, 194-196
Handlers(tool) ==
  IF tool = "list_episodes" THEN << "ValueError", "Exception" >>
  ELSE << "Exception" >>

\* the literal text of the handler's message
HandlerText(tool, handler) ==
  CASE tool = "query_podcast" -> "Error querying podcast: "
    [] tool = "get_episode_info" -> "Error retrieving episode info: "
    [] tool = "list_episodes" /\ handler = "ValueError" -> "Error listing episodes: "
    [] OTHER -> "An unexpected error occurred while listing episodes: "

\* the outcome of a tool in whose try block exc was raised with message msg
RECURSIVE Catch(_, _, _, _)
Catch(tool, handlers, exc, msg) ==
  IF handlers = <<>>
    THEN [ kind |-> "raised", lits |-> << exc >>, val |-> msg ]
  ELSE IF Handles(Head(handlers), exc)
    THEN [ kind |-> "str", lits |-> << HandlerText(tool, Head(handlers)) >>, val |-> msg ]
  ELSE Catch(tool, Tail(handlers), exc, msg)

\* rag_mcp/main.py line 165
NoEpisodeFound(date) ==
  [ kind |-> "str",
    lits |-> << "Error: No episode found for date '",
                "'. Please check the date format (YYYY-MM-DD) and try again." >>,
    val |-> date ]

\* json.dumps(value, indent=2, ensure_ascii=False)
json_dumps(value) == [ kind |-> "str", lits |-> << "json" >>, val |-> value ]

NoOutcome == [ kind |-> "none", lits |-> <<>>, val |-> <<>> ]

\* the call is over: remember how it ended
I_End(outcome, cause) ==
  /\ i_pc' = "ret"
  /\ i_outcome' = outcome
  /\ i_cause' = cause
  /\ UNCHANGED i_last

\* rag_mcp/main.py lines 160-165 with episode_info.py lines 180-182:
\* get_episode_info parses the date; a date that does not parse gives None
I_GetCall(date) ==
  /\ i_pc = "idle"
  /\ i_tool' = "get_episode_info"
  /\ i_args' = << date >>
  /\ target_date' = parse_date_input(date)
  /\ i_fetches' = 0
  /\ IF parse_date_input(date) = Nothing
       THEN I_End(NoEpisodeFound(date), "malformed")
       ELSE i_pc' = "fetch" /\ UNCHANGED << i_outcome, i_cause, i_last >>
  /\ UNCHANGED << info_feed, start_date, end_date, i_fetched >>

\* episode_info.py lines 185-195 and rag_mcp/main.py lines 164-172: fetch
\* the feed (empty on a transport error) and look for the date
I_GetFetch ==
  /\ i_pc = "fetch"
  /\ i_tool = "get_episode_info"
  /\ i_fetches' = i_fetches + 1
  /\ \/ \E fetched \in { info_feed, <<>> } :
          /\ i_fetched' = fetched
          /\ IF FirstOfDate(fetched, target_date[1]) = Nothing
               THEN I_End(NoEpisodeFound(i_args[1]), "not_found")
               ELSE I_End(json_dumps(FirstOfDate(fetched, target_date[1])[1]), "found")
     \/ \* the feed could not be parsed
        /\ i_fetched' = <<>>
        /\ I_End(Catch(i_tool, Handlers(i_tool), "RuntimeError", << "feed" >>), "error")
  /\ UNCHANGED << info_feed, i_tool, i_args, target_date, start_date, end_date >>

\* the dates of lines 127-144: nothing for the date that did not parse
EndDate(end) ==
  IF end # <<>>
    THEN IF parse_date_input(end) = Nothing THEN Nothing
         ELSE << parse_date_input(end)[1].day >>
    ELSE << Today >>

StartDate(beginning) ==
  IF beginning # <<>>
    THEN IF parse_date_input(beginning) = Nothing THEN Nothing
         ELSE << parse_date_input(beginning)[1].day >>
    ELSE << Today - default_days >>

\* episode_info.py lines 125-150 under rag_mcp/main.py lines 188-197: the
\* dates are parsed and the range is validated before anything is fetched
I_ListCall(beginning, end) ==
  /\ i_pc = "idle"
  /\ i_tool' = "list_episodes"
  /\ i_args' = << beginning, end >>
  /\ i_fetches' = 0
  /\ LET e == EndDate(end)
         s == StartDate(beginning)
         tool == "list_episodes"
     IN  IF e = Nothing
           THEN /\ I_End(Catch(tool, Handlers(tool), "ValueError",
                               << "Invalid end_date format: ", end >>), "malformed_end")
                /\ UNCHANGED << start_date, end_date >>
         ELSE IF s = Nothing
           THEN /\ I_End(Catch(tool, Handlers(tool), "ValueError",
                               << "Invalid start_date format: ", beginning >>),
                         "malformed_start")
                /\ end_date' = e[1]
                /\ UNCHANGED start_date
         ELSE /\ start_date' = s[1]
              /\ end_date' = e[1]
              /\ IF RangeTooLong(s[1], e[1])
                   THEN I_End(Catch(tool, Handlers(tool), "ValueError",
                                    << "The date range cannot exceed 12 months." >>),
                              "too_long")
                 ELSE IF s[1] > e[1]
                   THEN I_End(Catch(tool, Handlers(tool), "ValueError",
                                    << "start_date cannot be after end_date." >>),
                              "start_after_end")
                 ELSE i_pc' = "fetch" /\ UNCHANGED << i_outcome, i_cause, i_last >>
  /\ UNCHANGED << info_feed, target_date, i_fetched >>

\* episode_info.py lines 152-166: fetch, filter by the range, sort
I_ListFetch ==
  /\ i_pc = "fetch"
  /\ i_tool = "list_episodes"
  /\ i_fetches' = i_fetches + 1
  /\ \/ \E fetched \in { info_feed, <<>> } :
          LET kept == SelectSeq(fetched,
                        LAMBDA ep : InRange(start_date, ep.date.day, end_date))
              filtered_episodes == [ k \in 1 .. Len(kept) |-> list_item(kept[k]) ]
          IN  /\ i_fetched' = fetched
              /\ I_End(json_dumps(SortByDateString(filtered_episodes)), "listed")
     \/ \* the feed could not be parsed
        /\ i_fetched' = <<>>
        /\ I_End(Catch(i_tool, Handlers(i_tool), "RuntimeError", << "feed" >>), "error")
  /\ UNCHANGED << info_feed, i_tool, i_args, target_date, start_date, end_date >>

\* the caller has the result
I_Return ==
  /\ i_pc = "ret"
  /\ i_pc' = "idle"
  /\ i_tool' = ""
  /\ i_args' = <<>>
  /\ target_date' = Nothing
  /\ start_date' = 0
  /\ end_date' = 0
  /\ i_fetched' = <<>>
  /\ i_fetches' = 0
  /\ i_outcome' = NoOutcome
  /\ i_cause' = ""
  /\ i_last' = IF i_tool = "get_episode_info"
                 THEN [ cause |-> i_cause, lits |-> i_outcome.lits ]
                 ELSE i_last
  /\ UNCHANGED info_feed

I_Idle ==
  /\ i_pc = "idle"
  /\ i_tool = ""
  /\ i_args = <<>>
  /\ target_date = Nothing
  /\ start_date = 0
  /\ end_date = 0
  /\ i_fetched = <<>>
  /\ i_fetches = 0
  /\ i_outcome = NoOutcome
  /\ i_cause = ""
  /\ i_last = [ cause |-> "", lits |-> <<>> ]

(***************************************************************************)
(* rag_mcp: the tool query_podcast, called concurrently.                   *)
(***************************************************************************)
\* rag_mcp/main.py:132
similarity_top_k == 10

\* rag_mcp/main.py:82
top_n == 3

\* query/prefix.py:8
sep == " - "

\* at most MaxCalls invocations of query_podcast run at a time
MaxCalls == 2

\* the vector store holds at most MaxHits passages
MaxHits == 11

Calls == 1 .. MaxCalls

VARIABLES
  rag_index,              \* global index of rag_mcp/main.py: nothing, or the
                          \* passages of the vector store behind the handle
  node_postprocessors,    \* global node_postprocessors: nothing, or the list
  rag_at_init,            \* both globals as initialisation left them
  memories,               \* the ChatMemoryBuffer objects, by identity
  q_pc,                   \* per invocation: its position ("idle": none)
  question,               \* per invocation: argument question
  memory,                 \* per invocation: identity of its local memory
  nodes,                  \* per invocation: the passages in its pipeline
  reranked,               \* per invocation: the texts its reranker was given
  retrieved,              \* per invocation: the passages its retriever gave
  q_outcome               \* per invocation: how it ended, [kind, lits, val]

qvars == << rag_index, node_postprocessors, rag_at_init, memories, q_pc,
            question, memory, nodes, reranked, retrieved, q_outcome >>

Questions == { "q1", "q2" }

\* passage i of the store, as embed main writes it (chunk_text, episode_date);
\* every third passage is given no episode_date
MkNode(i) ==
  [ id |-> i,
    text |-> << "c", ToString(i) >>,
    episode_date |-> IF i % 3 = 0 THEN Nothing ELSE << "d" \o ToString(i) >> ]

MkNodes(n) == [ i \in 1 .. n |-> MkNode(i) ]

\* mutated variant of lines 100-103: the prefix is applied before the rerank
PrefixThenRerank(cohere_rerank) ==
  IF cohere_rerank THEN << "MetadataPrefixPostProcessor", "CohereRerank" >>
  ELSE << "MetadataPrefixPostProcessor" >>

\* lines 100-103: the rerank, if configured, then the prefix
RerankThenPrefix(cohere_rerank) ==
  IF cohere_rerank THEN << "CohereRerank", "MetadataPrefixPostProcessor" >>
  ELSE << "MetadataPrefixPostProcessor" >>

\* lines 68-103: initialize_rag sets both globals
initialize_rag(cohere_api_key, store) ==
  [ index |-> << store >>,
    node_postprocessors |-> << RerankThenPrefix(cohere_api_key) >> ]

\* the globals of a process that never ran initialize_rag, lines 52-53
Uninitialized == [ index |-> Nothing, node_postprocessors |-> Nothing ]

\* query/prefix.py lines 19-24: the metadata value, if any, is put before
\* the text
PrefixNode(n) ==
  IF n.episode_date # Nothing /\ n.episode_date[1] # ""
    THEN [ n EXCEPT !.text = << n.episode_date[1], sep >> \o n.text ]
    ELSE n

_postprocess_nodes(ns) == [ k \in 1 .. Len(ns) |-> PrefixNode(ns[k]) ]

\* orders in which the external reranker can rank the passages: as given,
\* reversed, or rotated by one
RerankOrders == 1 .. 3
Ranked(ns, order) ==
  CASE order = 1 -> ns
    [] order = 2 -> [ k \in 1 .. Len(ns) |-> ns[Len(ns) + 1 - k] ]
    [] order = 3 -> [ k \in 1 .. Len(ns) |-> ns[(k % Len(ns)) + 1] ]

\* CohereRerank(top_n=3): the top_n best of the passages, best first
CohereRerank(ns, order) == SubSeq(Ranked(ns, order), 1, Min(Len(ns), top_n))

Texts(ns) == [ k \in 1 .. Len(ns) |-> ns[k].text ]

\* the chat engine applies the postprocessors in the order of the list; the
\* result is the passages and the texts the reranker was given
RECURSIVE ApplyPostprocessors(_, _, _, _)
ApplyPostprocessors(procs, ns, order, seen) ==
  IF procs = <<>> THEN [ nodes |-> ns, reranked |-> seen ]
  ELSE IF Head(procs) = "CohereRerank"
    THEN ApplyPostprocessors(Tail(procs), CohereRerank(ns, order), order, Texts(ns))
    ELSE ApplyPostprocessors(Tail(procs), _postprocess_nodes(ns), order, seen)

\* index.as_retriever(similarity_top_k=10): the nearest passages
Retrieve(store) == SubSeq(store, 1, Min(Len(store), similarity_top_k))

\* mutated variant of line 128: one memory serves every invocation
MemoryShared(c) == 0

\* line 128: a memory of its own for every invocation
MemoryFresh(c) == c

\* the answer the model gives to a question after a history, from a context
Answer(q, history, context) ==
  [ question |-> q, history |-> history, context |-> Texts(context) ]

\* lines 122-128: the tool is entered; without the globals it returns at once
Q_Call(c, q) ==
  /\ q_pc[c] = "idle"
  /\ question' = [ question EXCEPT ![c] = q ]
  /\ IF rag_index = Nothing \/ node_postprocessors = Nothing
       THEN /\ q_pc' = [ q_pc EXCEPT ![c] = "ret" ]
            /\ q_outcome' = [ q_outcome EXCEPT ![c] =
                 [ kind |-> "str",
                   lits |-> << "Error: RAG system not initialized. Please check server logs." >>,
                   val |-> Answer(q, <<>>, <<>>) ] ]
            /\ UNCHANGED << memories, memory >>
       ELSE /\ q_pc' = [ q_pc EXCEPT ![c] = "retrieve" ]
            /\ memory' = [ memory EXCEPT ![c] = MemoryFresh(c) ]
            /\ memories' = [ memories EXCEPT ![MemoryFresh(c)] = <<>> ]
            /\ UNCHANGED q_outcome
  /\ UNCHANGED << rag_index, node_postprocessors, rag_at_init, nodes, reranked,
                  retrieved >>

\* the call ends by the exception exc raised inside the try block
Q_Raise(c, exc) ==
  /\ q_pc' = [ q_pc EXCEPT ![c] = "ret" ]
  /\ q_outcome' = [ q_outcome EXCEPT ![c] =
       [ Catch("query_podcast", Handlers("query_podcast"), exc, << "service" >>)
           EXCEPT !.val = Answer(question[c], <<>>, <<>>) ] ]

\* chat_engine.chat, first part: the retriever of line 132 queries the index
Q_Retrieve(c) ==
  /\ q_pc[c] = "retrieve"
  /\ \/ /\ nodes' = [ nodes EXCEPT ![c] = Retrieve(rag_index[1]) ]
        /\ retrieved' = [ retrieved EXCEPT ![c] = Retrieve(rag_index[1]) ]
        /\ q_pc' = [ q_pc EXCEPT ![c] = "postprocess" ]
        /\ UNCHANGED q_outcome
     \/ /\ Q_Raise(c, "RuntimeError")
        /\ UNCHANGED << nodes, retrieved >>
  /\ UNCHANGED << rag_index, node_postprocessors, rag_at_init, memories,
                  question, memory, reranked >>

\* chat_engine.chat, second part: node_postprocessors in their order
Q_Postprocess(c) ==
  /\ q_pc[c] = "postprocess"
  /\ \/ \E order \in RerankOrders :
          LET r == ApplyPostprocessors(node_postprocessors[1], nodes[c], order, Nothing)
          IN  /\ nodes' = [ nodes EXCEPT ![c] = r.nodes ]
              /\ reranked' = [ reranked EXCEPT ![c] = r.reranked ]
              /\ q_pc' = [ q_pc EXCEPT ![c] = "generate" ]
              /\ UNCHANGED q_outcome
     \/ /\ Q_Raise(c, "RuntimeError")
        /\ UNCHANGED << nodes, reranked >>
  /\ UNCHANGED << rag_index, node_postprocessors, rag_at_init, memories,
                  question, memory, retrieved >>

\* chat_engine.chat, last part, and lines 144-147: the answer is generated
\* from the memory's history and the passages, and both messages are put
\* into the memory
Q_Generate(c) ==
  /\ q_pc[c] = "generate"
  /\ \/ LET history == memories[memory[c]]
            response == Answer(question[c], history, nodes[c])
        IN  /\ q_outcome' = [ q_outcome EXCEPT ![c] =
                  [ kind |-> "str", lits |-> << "response" >>, val |-> response ] ]
            /\ memories' = [ memories EXCEPT ![memory[c]] =
                  history \o << question[c], "answer" >> ]
            /\ q_pc' = [ q_pc EXCEPT ![c] = "ret" ]
     \/ /\ Q_Raise(c, "RuntimeError")
        /\ UNCHANGED memories
  /\ UNCHANGED << rag_index, node_postprocessors, rag_at_init, question,
                  memory, nodes, reranked, retrieved >>

NoAnswer == [ kind |-> "none", lits |-> <<>>, val |-> Answer("", <<>>, <<>>) ]

\* the caller has the result; the locals of the invocation are gone
Q_Return(c) ==
  /\ q_pc[c] = "ret"
  /\ q_pc' = [ q_pc EXCEPT ![c] = "idle" ]
  /\ question' = [ question EXCEPT ![c] = "" ]
  /\ memory' = [ memory EXCEPT ![c] = 0 ]
  /\ nodes' = [ nodes EXCEPT ![c] = <<>> ]
  /\ reranked' = [ reranked EXCEPT ![c] = Nothing ]
  /\ retrieved' = [ retrieved EXCEPT ![c] = <<>> ]
  /\ q_outcome' = [ q_outcome EXCEPT ![c] = NoAnswer ]
  /\ memories' = [ memories EXCEPT ![memory[c]] = <<>> ]
  /\ UNCHANGED << rag_index, node_postprocessors, rag_at_init >>

\* no invocation yet, in a process with the globals g
Q_Idle(g) ==
  /\ rag_index = g.index
  /\ node_postprocessors = g.node_postprocessors
  /\ rag_at_init = g
  /\ memories = [ m \in 0 .. MaxCalls |-> <<>> ]
  /\ q_pc = [ c \in Calls |-> "idle" ]
  /\ question = [ c \in Calls |-> "" ]
  /\ memory = [ c \in Calls |-> 0 ]
  /\ nodes = [ c \in Calls |-> <<>> ]
  /\ reranked = [ c \in Calls |-> Nothing ]
  /\ retrieved = [ c \in Calls |-> <<>> ]
  /\ q_outcome = [ c \in Calls |-> NoAnswer ]

(***************************************************************************)
(* fetch_podcast_episodes, in audio_scrap/main.py and in                   *)
(* rag_mcp/episode_info.py, over the items of the feed document.           *)
(***************************************************************************)
\* feed documents have at most MaxItems items
MaxItems == 2

VARIABLES
  raw_feed,               \* the items of the feed document: [title, pubDate,
                          \* enclosure], each nothing or the tag's content
  scrap_fetched,          \* nothing, or what audio_scrap's function returned
  info_fetched,           \* nothing, or what episode_info's function returned
  fetch_failed            \* the implementations whose request failed

fvars == << raw_feed, scrap_fetched, info_fetched, fetch_failed >>

\* Tag.get_text(strip=True)
get_text(tag) == strip(tag[1])

\* the tokens of "%a, %d %b %Y %H:%M:%S"
pubDate_format == << "%a,", "%d", "%b", "%Y", "%H:%M:%S" >>

\* audio_scrap/main.py lines 43-49, episode_info.py lines 41-49: the text
\* split at whitespace, without its last token, parsed; nothing when
\* strptime raises ValueError
parse_pubDate(tokens) ==
  IF SubSeq(tokens, 1, Len(tokens) - 1) = pubDate_format
    THEN << "date" >> ELSE Nothing

\* item.find("enclosure", type="audio/mpeg")
find_enclosure(item) ==
  IF item.enclosure # Nothing /\ item.enclosure[1].type = "audio/mpeg"
    THEN item.enclosure ELSE Nothing

\* audio_scrap/main.py lines 33-64: the episode of an item, or nothing
scrap_item(item) ==
  IF item.title = Nothing THEN Nothing                            \* line 35
  ELSE LET title == get_text(item.title)
           date_obj == IF item.pubDate = Nothing THEN Nothing
                       ELSE parse_pubDate(item.pubDate[1])
           enclosure_tag == find_enclosure(item)
           mp3_url == IF enclosure_tag # Nothing /\ enclosure_tag[1].url # Nothing
                        THEN enclosure_tag[1].url ELSE Nothing
       IN  IF title # <<>> /\ mp3_url # Nothing /\ mp3_url[1] # <<>>
              /\ date_obj # Nothing                               \* line 57
             THEN << [ title |-> title, url |-> mp3_url[1], date |-> date_obj[1] ] >>
             ELSE Nothing

\* episode_info.py lines 28-88: the episode of an item, or nothing
info_item(item) ==
  IF item.title = Nothing THEN Nothing                            \* line 35
  ELSE IF item.pubDate # Nothing /\ parse_pubDate(item.pubDate[1]) = Nothing
    THEN Nothing                                                  \* line 49
  ELSE IF find_enclosure(item) = Nothing \/ find_enclosure(item)[1].url = Nothing
    THEN Nothing                                                  \* line 56
  ELSE IF item.pubDate = Nothing THEN Nothing                     \* line 87
  ELSE << [ title |-> get_text(item.title),
            url |-> find_enclosure(item)[1].url[1],
            date |-> parse_pubDate(item.pubDate[1])[1] ] >>

\* episodes.append in the order of the document: the episodes of the list
\* eps, whose entries are an episode or nothing
RECURSIVE Appended(_)
Appended(eps) ==
  IF eps = <<>> THEN <<>> ELSE Head(eps) \o Appended(Tail(eps))

\* audio_scrap/main.py lines 17-67
scrap_fetch_podcast_episodes(items, request_fails) ==
  FetchResult(Appended([ k \in 1 .. Len(items) |-> scrap_item(items[k]) ]),
              request_fails)

\* episode_info.py lines 12-91
info_fetch_podcast_episodes(items, request_fails) ==
  IF request_fails THEN <<>>
  ELSE Appended([ k \in 1 .. Len(items) |-> info_item(items[k]) ])

\* a call of audio_scrap's fetch_podcast_episodes
Feed_FetchScrap ==
  /\ scrap_fetched = Nothing
  /\ \E request_fails \in BOOLEAN :
       /\ scrap_fetched' = << scrap_fetch_podcast_episodes(raw_feed, request_fails) >>
       /\ fetch_failed' = IF request_fails THEN fetch_failed \cup { "scrap" }
                          ELSE fetch_failed
  /\ UNCHANGED << raw_feed, info_fetched >>

\* a call of episode_info's fetch_podcast_episodes
Feed_FetchInfo ==
  /\ info_fetched = Nothing
  /\ \E request_fails \in BOOLEAN :
       /\ info_fetched' = << info_fetch_podcast_episodes(raw_feed, request_fails) >>
       /\ fetch_failed' = IF request_fails THEN fetch_failed \cup { "info" }
                          ELSE fetch_failed
  /\ UNCHANGED << raw_feed, scrap_fetched >>

\* nothing was fetched from the document items
Feed_Idle(items) ==
  /\ raw_feed = items
  /\ scrap_fetched = Nothing
  /\ info_fetched = Nothing
  /\ fetch_failed = {}

\* the steps the pipeline has taken on its episodes, in order and without
\* immediate repetitions, as observed in SpecPipe: [run, ep, kind] with the
\* run that took the step, the audio url of the episode and the kind of step
VARIABLE steps

toolvars == << dvars, ivars, qvars, steps, fvars >>

\* number of embedding runs started, where ingestion cycles are counted
VARIABLE embed_runs

vars == << tvars, svars, evars, embed_runs, toolvars >>

(***************************************************************************)
(* Initial conditions shared by the specifications.                        *)
(***************************************************************************)
T_Idle ==
  /\ tpc = "idle"
  /\ filepath = None
  /\ duration = 0
  /\ num_chunks = 0
  /\ seg_i = 0
  /\ temp_files = <<>>
  /\ full_transcription = <<>>
  /\ previous_transcription = <<>>
  /\ transcription = None
  /\ chunk_files = {}
  /\ t_path = ""
  /\ file_size = 0
  /\ t_error = FALSE
  /\ requests = <<>>
  /\ outputs = <<>>

Scrap_Idle ==
  /\ pc = "idle"
  /\ episodes = <<>>
  /\ episodes_to_process = <<>>
  /\ processed_data = <<>>
  /\ newly_processed_data = <<>>
  /\ ep_idx = 0
  /\ attempted = <<>>
  /\ failed_titles = {}
  /\ file_at_start = <<>>
  /\ scrap_runs = 0
  /\ fetch_error = FALSE

Embed_Idle ==
  /\ index = EmptyBag
  /\ embed_pc = "idle"
  /\ embed_to_process = <<>>
  /\ e_idx = 0
  /\ vectors_to_upsert = <<>>
  /\ chunks = 0
  /\ embedding_errors = {}
  /\ batch_start = 0
  /\ index_at_start = EmptyBag
  /\ query_failed = {}
  /\ embed_calls = EmptyBag
  /\ upsert_calls = EmptyBag
  /\ unwritten = {}
  /\ ever_failed = {}
  /\ query_fails = 0
  /\ embed_raised = FALSE
  /\ record_calls = {}
  /\ embed_runs = 0

(***************************************************************************)
(* SpecT: one invocation of transcribe_audio on any file.                  *)
(***************************************************************************)
TInit ==
  /\ Q_Idle(Uninitialized)
  /\ I_Idle
  /\ info_feed = <<>>
  /\ Dl_Idle
  /\ steps = <<>>
  /\ Feed_Idle(<<>>)
  /\ index_dimension = EMBEDDING_DIMENSION
  /\ T_Idle
  /\ Scrap_Idle
  /\ Embed_Idle
  /\ feed = <<>>
  /\ results_file = <<>>
  /\ audio_files = { safe_filename(TitleName(1)) }

\* main (lines 206-210) or any caller passes a path, or None
T_Call ==
  /\ tpc = "idle"
  /\ \E path \in { None, safe_filename(TitleName(1)) } : T_Enter(path)

TNext ==
  \/ T_Call /\ UNCHANGED << svars, evars, embed_runs, toolvars >>
  \/ T_SizeCheck(FileSizes) /\ UNCHANGED << svars, evars, embed_runs, toolvars >>
  \/ T_Direct(TextsT) /\ UNCHANGED << svars, evars, embed_runs, toolvars >>
  \/ T_Probe(Durations) /\ UNCHANGED << svars, evars, embed_runs, toolvars >>
  \/ T_Extract /\ UNCHANGED << svars, evars, embed_runs, toolvars >>
  \/ T_Whisper(TextsT) /\ UNCHANGED << svars, evars, embed_runs, toolvars >>
  \/ T_Finally /\ UNCHANGED << svars, evars, embed_runs, toolvars >>

SpecT == TInit /\ [][TNext]_vars

(***************************************************************************)
(* SpecScrap: repeated transcription runs over a feed.                     *)
(***************************************************************************)
MaxFeed == 5
MaxScrapRuns == 2

\* inputs of transcribe_audio inside a run
RunSizes == { limit_bytes - 1, limit_bytes }
RunDurations == { 0 }
RunTexts == { <<>>, <<"a">> }

ScrapInit ==
  /\ Q_Idle(Uninitialized)
  /\ I_Idle
  /\ info_feed = <<>>
  /\ Dl_Idle
  /\ steps = <<>>
  /\ Feed_Idle(<<>>)
  /\ index_dimension = EMBEDDING_DIMENSION
  /\ T_Idle
  /\ Scrap_Idle
  /\ Embed_Idle
  /\ feed \in Feeds(MaxFeed)
  /\ results_file = <<>>
  /\ audio_files = {}

ScrapNext ==
  \/ Scrap_Start(MaxScrapRuns) /\ UNCHANGED << evars, embed_runs, toolvars >>
  \/ Scrap_Download /\ UNCHANGED << evars, embed_runs, toolvars >>
  \/ T_SizeCheck(RunSizes) /\ UNCHANGED << svars, evars, embed_runs, toolvars >>
  \/ T_Direct(RunTexts) /\ UNCHANGED << svars, evars, embed_runs, toolvars >>
  \/ T_Probe(RunDurations) /\ UNCHANGED << svars, evars, embed_runs, toolvars >>
  \/ T_Extract /\ UNCHANGED << svars, evars, embed_runs, toolvars >>
  \/ T_Whisper(RunTexts) /\ UNCHANGED << svars, evars, embed_runs, toolvars >>
  \/ T_Finally /\ UNCHANGED << svars, evars, embed_runs, toolvars >>
  \/ Scrap_Record /\ UNCHANGED << evars, embed_runs, toolvars >>
  \/ Scrap_Save /\ UNCHANGED << evars, embed_runs, toolvars >>
  \/ Scrap_Exit /\ UNCHANGED << evars, embed_runs, toolvars >>

SpecScrap == ScrapInit /\ [][ScrapNext]_vars

(***************************************************************************)
(* SpecEmbed: repeated embedding runs over a transcript store.             *)
(***************************************************************************)
MaxRecords == 1

\* a store of n records over k titles; record w (if any) is whitespace-only
MkStore(n, k, w) ==
  [ i \in 1 .. n |->
      [ title |-> TitleName(((i - 1) % k) + 1), date |-> isoformat(i),
        audio_url |-> i,
        transcription |-> IF i = w THEN << " " >> ELSE << "a" >> ] ]

Stores(maxlen) ==
  { MkStore(n, k, w) : n \in 0 .. maxlen, k \in 1 .. maxlen, w \in 0 .. 1 }

\* stores of two records of different titles: none, the first or the second
\* whitespace-only
MixedStores == { MkStore(2, 2, w) : w \in 0 .. 2 }

\* the store of two records of one title (a feed can repeat a title, and
\* the file can be written by hand)
TwinStores == { MkStore(2, 1, 0) }

EmbedInit ==
  /\ Q_Idle(Uninitialized)
  /\ I_Idle
  /\ info_feed = <<>>
  /\ Dl_Idle
  /\ steps = <<>>
  /\ Feed_Idle(<<>>)
  /\ index_dimension \in IndexDimensions
  /\ T_Idle
  /\ Scrap_Idle
  /\ Embed_Idle
  /\ feed = <<>>
  /\ results_file \in Stores(MaxRecords) \cup MixedStores \cup TwinStores
  /\ audio_files = {}

EmbedNext ==
  \/ Embed_Start /\ UNCHANGED << tvars, svars, embed_runs, toolvars >>
  \/ Embed_Episode /\ UNCHANGED << tvars, svars, embed_runs, toolvars >>
  \/ Embed_Upsert /\ UNCHANGED << tvars, svars, embed_runs, toolvars >>
  \/ Embed_Crash /\ UNCHANGED << tvars, svars, embed_runs, toolvars >>
  \/ Embed_Finish /\ UNCHANGED << tvars, svars, embed_runs, toolvars >>
  \/ Embed_Exit /\ UNCHANGED << tvars, svars, embed_runs, toolvars >>

SpecEmbed == EmbedInit /\ [][EmbedNext]_vars

(***************************************************************************)
(* Spec: ingestion cycles, a transcription run followed by an embedding    *)
(* run, over an unchanging feed.                                           *)
(***************************************************************************)
MaxCycles == 2

Init ==
  /\ Q_Idle(Uninitialized)
  /\ I_Idle
  /\ info_feed = <<>>
  /\ Dl_Idle
  /\ steps = <<>>
  /\ Feed_Idle(<<>>)
  /\ index_dimension = EMBEDDING_DIMENSION
  /\ T_Idle
  /\ Scrap_Idle
  /\ Embed_Idle
  /\ feed \in Feeds(MaxRecords)
  /\ results_file = <<>>
  /\ audio_files = {}

\* a cycle starts with the transcription run
Ingest_ScrapStart ==
  /\ embed_pc = "idle"
  /\ embed_runs = scrap_runs
  /\ Scrap_Start(MaxCycles)
  /\ UNCHANGED << evars, embed_runs, toolvars >>

\* and goes on with the embedding run
Ingest_EmbedStart ==
  /\ pc = "idle"
  /\ embed_runs < scrap_runs
  /\ Embed_Start
  /\ embed_runs' = embed_runs + 1
  /\ UNCHANGED << tvars, svars, toolvars >>

Next ==
  \/ Ingest_ScrapStart
  \/ Scrap_Download /\ UNCHANGED << evars, embed_runs, toolvars >>
  \/ T_SizeCheck(RunSizes) /\ UNCHANGED << svars, evars, embed_runs, toolvars >>
  \/ T_Direct(RunTexts) /\ UNCHANGED << svars, evars, embed_runs, toolvars >>
  \/ T_Probe(RunDurations) /\ UNCHANGED << svars, evars, embed_runs, toolvars >>
  \/ T_Extract /\ UNCHANGED << svars, evars, embed_runs, toolvars >>
  \/ T_Whisper(RunTexts) /\ UNCHANGED << svars, evars, embed_runs, toolvars >>
  \/ T_Finally /\ UNCHANGED << svars, evars, embed_runs, toolvars >>
  \/ Scrap_Record /\ UNCHANGED << evars, embed_runs, toolvars >>
  \/ Scrap_Save /\ UNCHANGED << evars, embed_runs, toolvars >>
  \/ Scrap_Exit /\ UNCHANGED << evars, embed_runs, toolvars >>
  \/ Ingest_EmbedStart
  \/ Embed_Episode /\ UNCHANGED << tvars, svars, embed_runs, toolvars >>
  \/ Embed_Upsert /\ UNCHANGED << tvars, svars, embed_runs, toolvars >>
  \/ Embed_Crash /\ UNCHANGED << tvars, svars, embed_runs, toolvars >>
  \/ Embed_Finish /\ UNCHANGED << tvars, svars, embed_runs, toolvars >>
  \/ Embed_Exit /\ UNCHANGED << tvars, svars, embed_runs, toolvars >>

Spec == Init /\ [][Next]_vars

(***************************************************************************)
(* SpecDl: calls of download_audio over a directory it fills.              *)
(***************************************************************************)
DlInit ==
  /\ Q_Idle(Uninitialized)
  /\ I_Idle
  /\ info_feed = <<>>
  /\ index_dimension = EMBEDDING_DIMENSION
  /\ T_Idle
  /\ Scrap_Idle
  /\ Embed_Idle
  /\ Dl_Idle
  /\ steps = <<>>
  /\ Feed_Idle(<<>>)
  /\ feed = <<>>
  /\ results_file = <<>>
  /\ audio_files = {}

DlNext ==
  \/ \E title \in DlTitles, url \in DlUrls :
        Dl_Call(title, url) /\ UNCHANGED << tvars, svars, evars, embed_runs, ivars, qvars, steps, fvars >>
  \/ Dl_Get /\ UNCHANGED << tvars, svars, evars, embed_runs, ivars, qvars, steps, fvars >>
  \/ Dl_Write /\ UNCHANGED << tvars, svars, evars, embed_runs, ivars, qvars, steps, fvars >>
  \/ Dl_Return /\ UNCHANGED << tvars, svars, evars, embed_runs, ivars, qvars, steps, fvars >>

SpecDl == DlInit /\ [][DlNext]_vars

(***************************************************************************)
(* SpecInfo: calls of get_episode_info and list_episodes over a feed.      *)
(***************************************************************************)
\* publish days of the feed's episodes, around the default range
EpisodeDays == << Today - default_days - 1, Today - default_days, Today, Today + 1 >>

\* a feed of n episodes: days ascending, descending, or in pairs of one day
\* out of order; the time of day alternates
FeedPatterns == 1 .. 3
MkInfoFeed(n, p) ==
  [ i \in 1 .. n |->
      [ title |-> TitleName(i),
        date |-> [ day |-> CASE p = 1 -> EpisodeDays[((i - 1) % 4) + 1]
                             [] p = 2 -> EpisodeDays[((n - i) % 4) + 1]
                             [] p = 3 -> EpisodeDays[(((i + 1) \div 2) % 2) + 2],
                   tod |-> (i % 2) * 7 ] ] ]

InfoFeeds(maxlen) == { MkInfoFeed(n, p) : n \in 0 .. maxlen, p \in FeedPatterns }

\* days named by the date strings of the calls
InputDays ==
  { Today - max_range_days - 1, Today - max_range_days, Today - default_days,
    Today, Today + 1, Today - default_days + max_range_days,
    Today - default_days + max_range_days + 1 }

\* date strings: empty, of each accepted layout, with several times of day,
\* and of layouts no format accepts
DateStrings ==
  { << >>, << "text" >>, << "%Y-%m-%dT%H:%M:%SZ", Today, 7 >> }
    \cup { << "%Y-%m-%d", d >> : d \in InputDays }
    \cup { << "%Y-%m-%dT%H:%M:%S", Today, t >> : t \in { 0, 7, 23 } }
    \cup { << "%d/%m/%Y", Today - default_days >>, << "%d-%m-%Y", Today + 1 >>,
           << "%Y/%m/%d", Today - max_range_days >> }

InfoInit ==
  /\ index_dimension = EMBEDDING_DIMENSION
  /\ T_Idle
  /\ Scrap_Idle
  /\ Embed_Idle
  /\ Dl_Idle
  /\ steps = <<>>
  /\ Feed_Idle(<<>>)
  /\ I_Idle
  /\ Q_Idle(Uninitialized)
  /\ feed = <<>>
  /\ results_file = <<>>
  /\ audio_files = {}
  /\ info_feed \in InfoFeeds(MaxInfoFeed)

\* what a step of the tools over the feed leaves alone
InfoFrame ==
  UNCHANGED << tvars, svars, evars, embed_runs, dvars, qvars, steps, fvars >>

InfoNext ==
  \/ \E date \in DateStrings : I_GetCall(date) /\ InfoFrame
  \/ I_GetFetch /\ InfoFrame
  \/ \E beginning \in DateStrings, end \in DateStrings :
        I_ListCall(beginning, end) /\ InfoFrame
  \/ I_ListFetch /\ InfoFrame
  \/ I_Return /\ InfoFrame

SpecInfo == InfoInit /\ [][InfoNext]_vars

(***************************************************************************)
(* SpecQuery: concurrent invocations of query_podcast.                     *)
(***************************************************************************)
\* the globals of a process: never initialised, or initialised with or
\* without the reranker's key over a store of up to maxhits passages
Processes(maxhits) ==
  { Uninitialized }
    \cup { initialize_rag(key, MkNodes(n)) : key \in BOOLEAN, n \in 0 .. maxhits }

QueryInit ==
  /\ index_dimension = EMBEDDING_DIMENSION
  /\ T_Idle
  /\ Scrap_Idle
  /\ Embed_Idle
  /\ Dl_Idle
  /\ steps = <<>>
  /\ Feed_Idle(<<>>)
  /\ I_Idle
  /\ \E g \in Processes(MaxHits) : Q_Idle(g)
  /\ feed = <<>>
  /\ results_file = <<>>
  /\ audio_files = {}
  /\ info_feed = <<>>

\* what a step of query_podcast leaves alone
QueryFrame ==
  UNCHANGED << tvars, svars, evars, embed_runs, dvars, ivars, steps, fvars >>

QueryNext ==
  \/ \E c \in Calls, q \in Questions : Q_Call(c, q) /\ QueryFrame
  \/ \E c \in Calls : Q_Retrieve(c) /\ QueryFrame
  \/ \E c \in Calls : Q_Postprocess(c) /\ QueryFrame
  \/ \E c \in Calls : Q_Generate(c) /\ QueryFrame
  \/ \E c \in Calls : Q_Return(c) /\ QueryFrame

SpecQuery == QueryInit /\ [][QueryNext]_vars

(***************************************************************************)
(* SpecTools: the three tools of rag_mcp/main.py served by one process.    *)
(***************************************************************************)
\* date strings of the calls: empty, unparsable, today, and a day that is
\* more than the longest range before today
ToolDates ==
  { << >>, << "text" >>, << "%Y-%m-%d", Today >>,
    << "%Y-%m-%d", Today - max_range_days - 1 >> }

\* the process: never initialised, or initialised with or without the
\* reranker's key over a store of top_n + 1 passages
ToolProcesses ==
  { Uninitialized }
    \cup { initialize_rag(key, MkNodes(top_n + 1)) : key \in BOOLEAN }

ToolsInit ==
  /\ index_dimension = EMBEDDING_DIMENSION
  /\ T_Idle
  /\ Scrap_Idle
  /\ Embed_Idle
  /\ Dl_Idle
  /\ steps = <<>>
  /\ Feed_Idle(<<>>)
  /\ I_Idle
  /\ \E g \in ToolProcesses : Q_Idle(g)
  /\ feed = <<>>
  /\ results_file = <<>>
  /\ audio_files = {}
  /\ info_feed \in InfoFeeds(1)

ToolsNext ==
  \/ \E date \in ToolDates : I_GetCall(date) /\ InfoFrame
  \/ I_GetFetch /\ InfoFrame
  \/ \E beginning \in ToolDates, end \in ToolDates :
        I_ListCall(beginning, end) /\ InfoFrame
  \/ I_ListFetch /\ InfoFrame
  \/ I_Return /\ InfoFrame
  \/ \E q \in Questions : Q_Call(1, q) /\ QueryFrame
  \/ Q_Retrieve(1) /\ QueryFrame
  \/ Q_Postprocess(1) /\ QueryFrame
  \/ Q_Generate(1) /\ QueryFrame
  \/ Q_Return(1) /\ QueryFrame

SpecTools == ToolsInit /\ [][ToolsNext]_vars

(***************************************************************************)
(* SpecPipe: ingestion cycles over feeds of several episodes, with the     *)
(* steps taken on each episode written down in their order.                *)
(***************************************************************************)
\* the log with the entries es added, an entry that repeats the last left out
RECURSIVE Logged(_, _)
Logged(log, es) ==
  IF es = <<>> THEN log
  ELSE IF log # <<>> /\ log[Len(log)] = Head(es) THEN Logged(log, Tail(es))
  ELSE Logged(Append(log, Head(es)), Tail(es))

Step(stage, run, ep, kind) == [ run |-> << stage, run >>, ep |-> ep, kind |-> kind ]

\* feeds of two episodes, and of three of which the first and the last have
\* one title
PipeFeeds == { MkFeed(n, 2, p) : n \in 2 .. 3, p \in 1 .. 2 }

\* the one cycle starts with the transcription run
Pipe_ScrapStart ==
  /\ embed_pc = "idle"
  /\ embed_runs = scrap_runs
  /\ Scrap_Start(1)
  /\ UNCHANGED << evars, embed_runs, toolvars >>

PipeInit ==
  /\ index_dimension = EMBEDDING_DIMENSION
  /\ T_Idle
  /\ Scrap_Idle
  /\ Embed_Idle
  /\ Dl_Idle
  /\ steps = <<>>
  /\ Feed_Idle(<<>>)
  /\ I_Idle
  /\ info_feed = <<>>
  /\ Q_Idle(Uninitialized)
  /\ feed \in PipeFeeds
  /\ results_file = <<>>
  /\ audio_files = {}

\* what a step of the transcription run leaves alone, the log apart
ScrapFrame == UNCHANGED << evars, embed_runs, dvars, ivars, qvars, fvars >>

\* what a step of the embedding run leaves alone, the log apart
EmbedFrame ==
  UNCHANGED << tvars, svars, embed_runs, dvars, ivars, qvars, fvars >>

\* audio_scrap/main.py line 206: the download of the episode the loop is at
Pipe_Download ==
  /\ Scrap_Download
  /\ steps' = Logged(steps, << Step("scrap", scrap_runs,
                                    attempted'[Len(attempted')].url, "download") >>)
  /\ ScrapFrame

\* audio_scrap/main.py lines 210-219: the transcription has ended, with a
\* record for its episode or without
Pipe_Record ==
  /\ Scrap_Record
  /\ steps' = Logged(steps,
       << Step("scrap", scrap_runs,
               IF Len(processed_data') > Len(processed_data)
                 THEN processed_data'[Len(processed_data')].audio_url
                 ELSE attempted[Len(attempted)].url,
               "transcribe") >>)
  /\ ScrapFrame

\* the calls of kind made in this step of the embedding run, as log entries
NewCalls(kind) ==
  LET new == { c \in record_calls' \ record_calls : c[2] = kind }
  IN  IF new = {} THEN <<>>
      ELSE << Step("embed", embed_runs,
                   results_file[(CHOOSE c \in new : TRUE)[1]].audio_url, kind) >>

\* embed/main.py lines 119-149: chunking and embedding of a record
Pipe_Episode ==
  /\ Embed_Episode
  /\ steps' = Logged(steps, NewCalls("chunk") \o NewCalls("embed"))
  /\ EmbedFrame

\* embed/main.py lines 160-165: upsert of a sub-batch
Pipe_Upsert ==
  /\ Embed_Upsert
  /\ steps' = Logged(steps, NewCalls("upsert"))
  /\ EmbedFrame

PipeNext ==
  \/ Pipe_ScrapStart
  \/ Pipe_Download
  \/ T_SizeCheck(RunSizes) /\ UNCHANGED << svars, evars, embed_runs, toolvars >>
  \/ T_Direct(RunTexts) /\ UNCHANGED << svars, evars, embed_runs, toolvars >>
  \/ T_Probe(RunDurations) /\ UNCHANGED << svars, evars, embed_runs, toolvars >>
  \/ T_Extract /\ UNCHANGED << svars, evars, embed_runs, toolvars >>
  \/ T_Whisper(RunTexts) /\ UNCHANGED << svars, evars, embed_runs, toolvars >>
  \/ T_Finally /\ UNCHANGED << svars, evars, embed_runs, toolvars >>
  \/ Pipe_Record
  \/ Scrap_Save /\ UNCHANGED << evars, embed_runs, toolvars >>
  \/ Scrap_Exit /\ UNCHANGED << evars, embed_runs, toolvars >>
  \/ Ingest_EmbedStart
  \/ Pipe_Episode
  \/ Pipe_Upsert
  \/ Embed_Crash /\ UNCHANGED << tvars, svars, embed_runs, toolvars >>
  \/ Embed_Finish /\ UNCHANGED << tvars, svars, embed_runs, toolvars >>
  \/ Embed_Exit /\ UNCHANGED << tvars, svars, embed_runs, toolvars >>

SpecPipe == PipeInit /\ [][PipeNext]_vars

(***************************************************************************)
(* SpecFeed: both fetch_podcast_episodes over one feed document.           *)
(***************************************************************************)
\* title tags: none, whitespace only, a title
ItemTitles == { Nothing, << << " " >> >>, << << "t", "1" >> >> }

\* pubDate tags: none, the feed's format with its timezone, the same without
ItemDates ==
  { Nothing, << pubDate_format \o << "GMT" >> >>, << pubDate_format >> }

\* enclosure tags: none, of another type, audio/mpeg without url, with an
\* empty url and with a url
ItemEnclosures ==
  { Nothing,
    << [ type |-> "audio/ogg", url |-> << << "u" >> >> ] >>,
    << [ type |-> "audio/mpeg", url |-> Nothing ] >>,
    << [ type |-> "audio/mpeg", url |-> << << >> >> ] >>,
    << [ type |-> "audio/mpeg", url |-> << << "u" >> >> ] >> }

Items == [ title : ItemTitles, pubDate : ItemDates, enclosure : ItemEnclosures ]

RawFeeds(maxlen) == UNION { [ 1 .. n -> Items ] : n \in 0 .. maxlen }

FeedInit ==
  /\ index_dimension = EMBEDDING_DIMENSION
  /\ T_Idle
  /\ Scrap_Idle
  /\ Embed_Idle
  /\ Dl_Idle
  /\ steps = <<>>
  /\ I_Idle
  /\ info_feed = <<>>
  /\ Q_Idle(Uninitialized)
  /\ feed = <<>>
  /\ results_file = <<>>
  /\ audio_files = {}
  /\ \E items \in RawFeeds(MaxItems) : Feed_Idle(items)

\* what a fetch leaves alone
FeedFrame ==
  UNCHANGED << tvars, svars, evars, embed_runs, dvars, ivars, qvars, steps >>

FeedNext ==
  \/ Feed_FetchScrap /\ FeedFrame
  \/ Feed_FetchInfo /\ FeedFrame

SpecFeed == FeedInit /\ [][FeedNext]_vars

(***************************************************************************)
(* Properties.                                                             *)
(***************************************************************************)
IsPrefix(a, b) == Len(a) <= Len(b) /\ SubSeq(b, 1, Len(a)) = a

\* the run made no embedding call and no upsert call for title X
NoCallsFor(X) == CopiesIn(X, embed_calls) = 0 /\ CopiesIn(X, upsert_calls) = 0

\* titles of store records that had a vector when the embedding run started
IndexedAtStart == Titles(results_file) \cap IndexedTitles(index_at_start)

C3_OneRecordPerTitle ==
  \A i, j \in 1 .. Len(results_file) :
     results_file[i].title = results_file[j].title => i = j

\* C4: once transcribe_audio has returned from the chunked path, by success
\* or by an error at any step, no segment file is left on disk.
C4_NoSegmentFileLeft ==
  tpc = "ret" => chunk_files = {}

\* the chunked path failed after two segment files had been registered
C4_Witness ==
  /\ tpc = "ret"
  /\ t_path = "chunked"
  /\ t_error
  /\ Len(temp_files) >= 2

\* C5 as stated: an error in the chunked path makes transcribe_audio return
\* None, and when the run has ended the store holds no record for the title
\* of an episode whose chunked transcription failed in the run.
C5_FailedEpisodeStaysUnprocessed ==
  /\ (tpc = "ret" /\ t_error) => transcription = None
  /\ pc = "scrap_done" => \A t \in failed_titles : t \notin Titles(results_file)

\* C6: in the chunked path the j-th request is for segment j - 1, with an
\* empty prompt for segment 0 and the text returned for the segment before
\* for every later one.
C6_PromptIsPreviousSegment ==
  t_path = "chunked" =>
    \A j \in 1 .. Len(requests) :
       /\ requests[j].seg = j - 1
       /\ requests[j].prompt = IF j = 1 THEN <<>> ELSE outputs[j - 1]

\* three segments were requested, the first two with different non-empty texts
C6_Witness ==
  /\ t_path = "chunked"
  /\ Len(requests) >= 3
  /\ Len(outputs) >= 2
  /\ outputs[1] # <<>>
  /\ outputs[2] # <<>>
  /\ outputs[1] # outputs[2]

\* C7: when the chunked path succeeds on a file of duration D, the numbers
\* of segments extracted and of segments transcribed are floor(D / S) + 1.
C7_SegmentCount ==
  (tpc = "ret" /\ t_path = "chunked" /\ ~ t_error) =>
    /\ Len(temp_files) = (duration \div chunk_duration_s) + 1
    /\ Len(requests) = (duration \div chunk_duration_s) + 1
    /\ Len(outputs) = (duration \div chunk_duration_s) + 1

\* the chunked path succeeded on a file of exactly two segment lengths
C7_Witness ==
  /\ tpc = "ret"
  /\ t_path = "chunked"
  /\ ~ t_error
  /\ duration = 2 * chunk_duration_s
  /\ Len(outputs) = 3

\* positions of the fetched episodes that had no record when the run started
Unprocessed == { k \in 1 .. Len(episodes) : episodes[k].title \notin Titles(file_at_start) }

AttemptedSet == { attempted[j] : j \in 1 .. Len(attempted) }

\* C8: a transcription run appends at most 4 records; the episodes it
\* attempts are distinct fetched episodes without a record, at most 4, in
\* order of non-increasing publish date, none older than an episode without
\* a record that is not attempted; a run that ends has attempted 4 of them,
\* or all of them if they are fewer.
C8_CapAndNewestFirst ==
  /\ Len(newly_processed_data) <= EPISODES_TO_PROCESS
  /\ pc = "scrap_done" => Len(results_file) - Len(file_at_start) <= EPISODES_TO_PROCESS
  /\ Len(attempted) <= EPISODES_TO_PROCESS
  /\ \A j \in 1 .. Len(attempted) : \E k \in Unprocessed : episodes[k] = attempted[j]
  /\ \A i, j \in 1 .. Len(attempted) : attempted[i] = attempted[j] => i = j
  /\ \A j \in 1 .. (Len(attempted) - 1) : attempted[j].date >= attempted[j + 1].date
  /\ \A j \in 1 .. Len(attempted) : \A k \in Unprocessed :
        episodes[k] \notin AttemptedSet => episodes[k].date <= attempted[j].date
  /\ (pc = "scrap_done" /\ episodes # <<>>) =>
        Len(attempted) = Min(Cardinality(Unprocessed), EPISODES_TO_PROCESS)

\* a run ended that had more than 4 episodes to choose from, attempted 4 of
\* different dates and recorded them all
C8_Witness ==
  /\ pc = "scrap_done"
  /\ Cardinality(Unprocessed) > EPISODES_TO_PROCESS
  /\ Len(attempted) = EPISODES_TO_PROCESS
  /\ attempted[1].date > attempted[4].date
  /\ attempted[1] # episodes[1]
  /\ Len(newly_processed_data) = EPISODES_TO_PROCESS

LeftOutIndexed(u) == \E m \in 1 .. Len(u.ks) : ChunkIndexed(index, u.src, u.ks[m])

WhitespaceOnly(text) == \A j \in 1 .. Len(text) : text[j] = " "

\* the record the loop of embed main is at is empty or whitespace-only
AtBlankRecord ==
  /\ embed_pc = "embed_loop"
  /\ e_idx <= Len(embed_to_process)
  /\ WhitespaceOnly(results_file[embed_to_process[e_idx]].transcription)

\* C11: the step of an embedding run at a record whose transcription is
\* empty or whitespace-only makes no chunking, embedding or upsert call,
\* writes nothing to the index, raises no error and leaves the loop at the
\* next episode.
C11_BlankRecordSkipped ==
  [][ AtBlankRecord =>
        /\ record_calls' = record_calls
        /\ embed_calls' = embed_calls
        /\ upsert_calls' = upsert_calls
        /\ index' = index
        /\ ~ embed_raised'
        /\ embed_pc' = "embed_loop"
        /\ e_idx' = e_idx + 1 ]_vars

\* a whitespace-only record was passed over without a call and the loop is
\* at the next episode
C11_Witness ==
  /\ embed_pc = "embed_loop"
  /\ e_idx = 2
  /\ Len(embed_to_process) = 2
  /\ WhitespaceOnly(results_file[embed_to_process[1]].transcription)
  /\ ~ WhitespaceOnly(results_file[embed_to_process[2]].transcription)
  /\ record_calls = {}
  /\ ~ embed_raised

\* C19 as stated: when the index has another dimension than the embeddings,
\* the run ends by an error once an upsert was refused, and makes no call
\* for a later episode.
C19_MismatchAborts ==
  DimensionMismatch =>
    \A c1, c2 \in record_calls :
       c1[2] = "upsert" => (c2[1] <= c1[1] /\ (embed_pc = "embed_done" => embed_raised))

\* the file at the path derived from the title of the call, as it was when
\* the call started
DlFound == { f \in dl_files_before : f.key = safe_filename(dl_title) }

\* C20: a call of download_audio that finds a file at the path derived from
\* its title returns that path, requests nothing and leaves every file as
\* it was, whatever its url; the file found is the one an earlier call
\* wrote for any title with the same key.
C20_ExistingFileReturned ==
  (dl_pc = "ret" /\ DlFound # {}) =>
     /\ dl_result = safe_filename(dl_title)
     /\ dl_requests = <<>>
     /\ dl_files = dl_files_before
     /\ \A f \in DlFound : safe_filename(f.title) = dl_result

\* a call returned the file that an earlier call wrote for another title
\* and from another url
C20_Witness ==
  /\ dl_pc = "ret"
  /\ dl_result # None
  /\ \E f \in DlFound :
        /\ f.title # dl_title
        /\ f.url # dl_url
        /\ f.whole
  /\ dl_requests = <<>>

\* a call of get_episode_info has ended
GetEnded == i_pc = "ret" /\ i_tool = "get_episode_info"

\* C12 as stated: of two successive calls of get_episode_info, one ended
\* for a date that does not parse and one for a well-formed date without
\* an episode, the results differ in more than the date they repeat.
C12_NotFoundDistinctFromMalformed ==
  ( /\ GetEnded
    /\ { i_cause, i_last.cause } = { "malformed", "not_found" } )
  => i_outcome.lits # i_last.lits

\* layouts of text that one of the formats of parse_date_input accepts
AcceptedLayouts ==
  { "%Y-%m-%d", "%Y-%m-%dT%H:%M:%S", "%d/%m/%Y", "%d-%m-%Y", "%Y/%m/%d" }

WellFormed(str) == str # <<>> /\ str[1] \in AcceptedLayouts

\* positions of the fetched episodes published on the day the string names
PublishedOn(str) ==
  { k \in 1 .. Len(i_fetched) : i_fetched[k].date.day = str[2] }

\* C18: a call of get_episode_info_by_date with a well-formed date returns
\* the first fetched episode published on the calendar day the request
\* names, whatever the times of day of request and episode, and returns no
\* episode when none was published on that day.
C18_MatchByCalendarDate ==
  (GetEnded /\ i_cause \in { "found", "not_found" }) =>
     LET on == PublishedOn(i_args[1])
     IN  IF on = {}
           THEN i_cause = "not_found"
           ELSE LET k == CHOOSE m \in on : \A o \in on : m <= o
                IN  /\ i_cause = "found"
                    /\ i_outcome.val.title = i_fetched[k].title
                    /\ i_outcome.val.date[1] = date_isoformat(i_args[1][2])
                    /\ i_outcome.val.date[3] = i_fetched[k].date.tod

\* a request with a time of day found the episode of its day, published at
\* another time of day
C18_Witness ==
  /\ GetEnded
  /\ i_cause = "found"
  /\ Len(i_args[1]) = 3
  /\ i_outcome.val.date[3] # i_args[1][3]
  /\ i_outcome.val.date[3] # 0

\* a call of list_episodes has ended
ListEnded == i_pc = "ret" /\ i_tool = "list_episodes"

\* the range a call of list_episodes asks for, from its arguments
AskedStart == IF i_args[1] = <<>> THEN Today - default_days ELSE i_args[1][2]
AskedEnd == IF i_args[2] = <<>> THEN Today ELSE i_args[2][2]

ArgsWellFormed ==
  /\ i_args[1] = <<>> \/ WellFormed(i_args[1])
  /\ i_args[2] = <<>> \/ WellFormed(i_args[2])

\* the call was rejected as invalid, with nothing fetched
RejectedUnfetched ==
  /\ i_outcome.kind = "str"
  /\ i_outcome.lits = << "Error listing episodes: " >>
  /\ i_fetches = 0
  /\ i_fetched = <<>>

\* C13: a call of list_episodes whose range spans more than 366 days, or
\* whose start is after its end, or one of whose dates is malformed, ends
\* with a validation error and without a feed fetch.
C13_InvalidRangeRejectedUnfetched ==
  ListEnded =>
     /\ ~ ArgsWellFormed => RejectedUnfetched
     /\ (ArgsWellFormed /\ AskedEnd - AskedStart > max_range_days) => RejectedUnfetched
     /\ (ArgsWellFormed /\ AskedStart > AskedEnd) => RejectedUnfetched

\* a range of 367 days was rejected with nothing fetched
C13_Witness ==
  /\ ListEnded
  /\ ArgsWellFormed
  /\ AskedEnd - AskedStart = max_range_days + 1
  /\ i_cause = "too_long"
  /\ RejectedUnfetched

\* the day a date string of digits names
DayOfDigits(ds) == ds[1] * 1000 + ds[2] * 100 + ds[3] * 10 + ds[4]

\* positions of the fetched episodes published in the range asked for
InAskedRange ==
  { k \in 1 .. Len(i_fetched) :
       AskedStart <= i_fetched[k].date.day /\ i_fetched[k].date.day <= AskedEnd }

\* C14: a call of list_episodes with an accepted range returns all and only
\* the fetched episodes with start <= date <= end, each with its name and
\* date, in ascending order of date; without arguments the range is from
\* 90 days before today to today.
C14_ListIsRangeAscending ==
  (ListEnded /\ i_cause = "listed") =>
     LET result == i_outcome.val
     IN  /\ Len(result) = Cardinality(InAskedRange)
         /\ \A k \in InAskedRange : \E j \in 1 .. Len(result) :
               /\ result[j].episode_name = i_fetched[k].title
               /\ DayOfDigits(result[j].date) = i_fetched[k].date.day
         /\ \A j \in 1 .. Len(result) : \E k \in InAskedRange :
               /\ result[j].episode_name = i_fetched[k].title
               /\ DayOfDigits(result[j].date) = i_fetched[k].date.day
         /\ \A j \in 1 .. (Len(result) - 1) :
               DayOfDigits(result[j].date) <= DayOfDigits(result[j + 1].date)

\* a call without arguments over a feed in descending order, with episodes
\* on both ends of the default range and just outside it, returned the two
\* inside, oldest first
C14_Witness ==
  /\ ListEnded
  /\ i_cause = "listed"
  /\ i_args = << <<>>, <<>> >>
  /\ Len(i_fetched) = 4
  /\ i_fetched[1].date.day > i_fetched[4].date.day
  /\ Len(i_outcome.val) = 2
  /\ DayOfDigits(i_outcome.val[1].date) = Today - default_days
  /\ DayOfDigits(i_outcome.val[2].date) = Today

\* C15: each of query_podcast, get_episode_info and list_episodes ends every
\* call with a string, whether the call succeeded, an error was raised inside
\* it (by the feed, the index, the reranker, the parsing of a date or the
\* generation of the answer) or the process was never initialised: no
\* exception leaves a tool.
C15_ToolsReturnStrings ==
  /\ i_outcome.kind # "raised"
  /\ i_pc = "ret" => i_outcome.kind = "str"
  /\ \A c \in Calls :
       /\ q_outcome[c].kind # "raised"
       /\ q_pc[c] = "ret" => q_outcome[c].kind = "str"

\* list_episodes ended on an error that is no ValueError while query_podcast
\* ended on an error of the chat engine
C15_Witness ==
  /\ i_pc = "ret"
  /\ i_tool = "list_episodes"
  /\ i_cause = "error"
  /\ q_pc[1] = "ret"
  /\ q_outcome[1].lits = << "Error querying podcast: " >>

\* the invocation c is between the creation of its memory and its return
Running(c) == q_pc[c] \in { "retrieve", "postprocess", "generate" }

\* the invocation c has its answer and has not yet returned it
Answered(c) == q_pc[c] = "ret" /\ q_outcome[c].lits = << "response" >>

\* what a single invocation asked q can return in the process as
\* initialisation left it: an answer from an empty history and the passages
\* of one of the reranker's orders, or the text of the tool's handler
AloneOutcomes(q) ==
  IF rag_at_init = Uninitialized
    THEN { [ kind |-> "str",
             lits |-> << "Error: RAG system not initialized. Please check server logs." >>,
             val |-> [ question |-> q, history |-> <<>>, context |-> <<>> ] ] }
    ELSE { [ kind |-> "str", lits |-> << "Error querying podcast: " >>,
             val |-> [ question |-> q, history |-> <<>>, context |-> <<>> ] ] }
           \cup { [ kind |-> "str", lits |-> << "response" >>,
                    val |-> [ question |-> q, history |-> <<>>,
                              context |-> Texts(ApplyPostprocessors(
                                 rag_at_init.node_postprocessors[1],
                                 Retrieve(rag_at_init.index[1]), o, Nothing).nodes) ] ]
                  : o \in RerankOrders }

\* C16: concurrent invocations of query_podcast share no mutable state: the
\* memories of two running invocations are different objects, the globals
\* index and node_postprocessors stay as initialisation left them, and in
\* every interleaving an invocation returns what it could return alone.
C16_InvocationsIndependent ==
  /\ rag_index = rag_at_init.index
  /\ node_postprocessors = rag_at_init.node_postprocessors
  /\ \A c \in Calls, d \in Calls :
       c # d /\ Running(c) /\ Running(d) => memory[c] # memory[d]
  /\ \A c \in Calls : q_pc[c] = "ret" => q_outcome[c] \in AloneOutcomes(question[c])

\* two invocations with different questions both have their answers, each
\* generated while the other's memory held its own exchange
C16_Witness ==
  /\ \A c \in Calls : c <= 2 => Answered(c) /\ memories[memory[c]] # <<>>
  /\ question[1] # question[2]
  /\ Len(q_outcome[1].val.context) > 0

\* the process was initialised with the reranker
RerankConfigured ==
  /\ node_postprocessors # Nothing
  /\ \E k \in 1 .. Len(node_postprocessors[1]) :
        node_postprocessors[1][k] = "CohereRerank"

\* the passage n is the retrieved passage o with its date, if it has one,
\* and the separator put before its text
DatePrefixed(n, o) ==
  /\ n.id = o.id
  /\ n.episode_date = o.episode_date
  /\ n.text = IF o.episode_date = Nothing THEN o.text
              ELSE << o.episode_date[1], sep >> \o o.text

\* the passages of the invocation c have passed the postprocessors
Handed(c) == q_pc[c] = "generate" \/ Answered(c)

\* C17: in query_podcast the retriever gives the similarity_top_k nearest
\* passages; with a reranker they are reranked, as they were retrieved, to
\* at most top_n before the prefix is applied, and without one all of them
\* go to the prefix step in their order; every passage handed to the
\* generation is a retrieved passage whose text is date, separator, original
\* text if it has an episode_date and the original text if it has none.
C17_RerankThenPrefix ==
  \A c \in Calls :
    Handed(c) =>
      /\ retrieved[c] = SubSeq(rag_index[1], 1, Min(Len(rag_index[1]), similarity_top_k))
      /\ IF RerankConfigured
           THEN /\ reranked[c] = [ k \in 1 .. Len(retrieved[c]) |-> retrieved[c][k].text ]
                /\ Len(nodes[c]) = Min(Len(retrieved[c]), top_n)
                /\ \A k \in 1 .. Len(nodes[c]) :
                     \E j \in 1 .. Len(retrieved[c]) :
                        DatePrefixed(nodes[c][k], retrieved[c][j])
                /\ \A k \in 1 .. Len(nodes[c]), j \in 1 .. Len(nodes[c]) :
                     k # j => nodes[c][k].id # nodes[c][j].id
           ELSE /\ reranked[c] = Nothing
                /\ Len(nodes[c]) = Len(retrieved[c])
                /\ \A k \in 1 .. Len(nodes[c]) :
                     DatePrefixed(nodes[c][k], retrieved[c][k])
      /\ Answered(c) =>
           q_outcome[c].val.context = [ k \in 1 .. Len(nodes[c]) |-> nodes[c][k].text ]

\* with a reranker, more passages in the store than are retrieved and more
\* retrieved than are kept: the kept ones, some with a date and one without,
\* go to the generation
C17_Witness ==
  /\ RerankConfigured
  /\ q_pc[1] = "generate"
  /\ Len(rag_index[1]) > similarity_top_k
  /\ Len(retrieved[1]) = similarity_top_k
  /\ Len(nodes[1]) = top_n
  /\ \E k \in 1 .. top_n : nodes[1][k].episode_date = Nothing
  /\ \E k \in 1 .. top_n :
        /\ nodes[1][k].episode_date # Nothing
        /\ nodes[1][k].text[2] = sep

\* C26: in the chunked path a file of duration D is partitioned into
\* ceil(D / S) segments of length S, also when D is a multiple of S.
C26_SegmentCountIsCeiling ==
  (tpc = "ret" /\ t_path = "chunked" /\ ~ t_error) =>
    /\ num_chunks = (duration + chunk_duration_s - 1) \div chunk_duration_s
    /\ Len(temp_files) = (duration + chunk_duration_s - 1) \div chunk_duration_s

\* the texts of ts with one space between neighbours
RECURSIVE JoinWithSpace(_)
JoinWithSpace(ts) ==
  IF ts = <<>> THEN <<>>
  ELSE IF Len(ts) = 1 THEN ts[1]
  ELSE ts[1] \o << " " >> \o JoinWithSpace(Tail(ts))

\* s without the spaces at its two ends
Trimmed(s) ==
  IF \A k \in 1 .. Len(s) : s[k] = " " THEN <<>>
  ELSE LET a == CHOOSE k \in 1 .. Len(s) : s[k] # " " /\ \A j \in 1 .. (k - 1) : s[j] = " "
           b == CHOOSE k \in 1 .. Len(s) : s[k] # " " /\ \A j \in (k + 1) .. Len(s) : s[j] = " "
       IN  SubSeq(s, a, b)

\* the chunked path returned after every segment was transcribed
ChunkedSuccess == tpc = "ret" /\ t_path = "chunked" /\ ~ t_error

\* the outputs are those of the segments 0 .. n-1 in their order
OutputsInSegmentOrder ==
  /\ Len(outputs) = num_chunks
  /\ Len(requests) = num_chunks
  /\ \A k \in 1 .. Len(requests) : requests[k].seg = k - 1

PartialOfTitle == { f \in dl_files_before : f.title = dl_title /\ ~ f.whole }

\* C28: a download_audio call that fails with a transport error, also one
\* raised while the body is written to the file, returns None and removes no
\* file, partial or not; a later call for the same title requests the
\* download again.
C28_FailedDownloadRetried ==
  dl_pc = "ret" =>
    /\ dl_result = None =>
         \A f \in dl_files_before : \E g \in dl_files : g.key = f.key
    /\ (dl_result = None /\ dl_requests # <<>>) =>
         \A g \in dl_files : g.key = safe_filename(dl_title) => ~ g.whole
    /\ PartialOfTitle # {} => dl_requests # <<>>

\* C29: appending a record persists the whole updated collection: when a
\* transcription run starts on its next episode, the record of every
\* episode it has transcribed so far is in the store file.
C29_RecordsPersistedBeforeNext ==
  (pc = "scrap_loop" /\ ep_idx <= SliceLen(episodes_to_process)) =>
    \A k \in 1 .. Len(newly_processed_data) :
      \E j \in 1 .. Len(results_file) : results_file[j] = newly_processed_data[k]

\* the steps of the log between two steps on one episode are on that episode
StepsContiguous(same_run) ==
  \A i \in 1 .. Len(steps), k \in 1 .. Len(steps) :
    (i < k /\ steps[i].ep = steps[k].ep
       /\ (same_run => steps[i].run = steps[k].run)) =>
      \A j \in i .. k : steps[j].ep = steps[i].ep

\* C30 as stated: the pipeline handles one episode at a time: every
\* download, transcription, chunking, embedding and upsert step of an
\* episode is over before any such step of the next episode begins.
C30_OneEpisodeThroughAllSteps == StepsContiguous(FALSE)

\* C30 as amended: each run of the pipeline handles one episode at a time:
\* in a transcription run every download and transcription step of an
\* episode is over before any such step of the next begins, and in an
\* embedding run every chunking, embedding and upsert step of an episode is
\* over before any such step of the next begins.
C30_OneEpisodeAtATimePerRun ==
  /\ StepsContiguous(TRUE)
  /\ \A i \in 1 .. Len(steps), k \in 1 .. Len(steps) :
       (i < k /\ steps[i].run = steps[k].run) =>
         \A j \in i .. k : steps[j].run = steps[i].run

\* two episodes were downloaded and transcribed in one run and then chunked,
\* embedded and upserted in the next
C30_Witness ==
  \E a \in 1 .. Len(steps), b \in 1 .. Len(steps), c \in 1 .. Len(steps),
     d \in 1 .. Len(steps) :
    /\ a < b /\ b < c /\ c < d
    /\ steps[a].kind = "transcribe" /\ steps[b].kind = "download"
    /\ steps[a].ep # steps[b].ep /\ steps[a].run = steps[b].run
    /\ steps[c].kind = "upsert" /\ steps[d].kind = "chunk"
    /\ steps[c].ep # steps[d].ep /\ steps[c].run = steps[d].run

\* the item has a title, a publish date that parses and an audio/mpeg
\* enclosure with a url, none of them empty
Complete(item) ==
  /\ item.title # Nothing /\ \E k \in 1 .. Len(item.title[1]) : item.title[1][k] # " "
  /\ item.pubDate # Nothing
  /\ item.pubDate[1] = pubDate_format \o << "GMT" >>
  /\ item.enclosure # Nothing
  /\ item.enclosure[1].type = "audio/mpeg"
  /\ item.enclosure[1].url # Nothing
  /\ item.enclosure[1].url[1] # <<>>

\* C21: both implementations of fetch_podcast_episodes admit an item of the
\* feed if and only if it has a title, a publish date that parses and an
\* audio/mpeg enclosure url, and drop every other item; for one feed they
\* admit the same items.
C21_BothAdmitTheComplete ==
  LET complete == SelectSeq(raw_feed, Complete)
  IN  /\ (scrap_fetched # Nothing /\ "scrap" \notin fetch_failed) =>
           Len(scrap_fetched[1]) = Len(complete)
      /\ (info_fetched # Nothing /\ "info" \notin fetch_failed) =>
           Len(info_fetched[1]) = Len(complete)
      /\ (scrap_fetched # Nothing /\ info_fetched # Nothing /\ fetch_failed = {}) =>
           scrap_fetched = info_fetched

\* C22: when the request for the feed fails with a transport error,
\* fetch_podcast_episodes returns an empty sequence and the transcription
\* run that called it ends: it downloads nothing, transcribes nothing and
\* leaves the transcript store as it was.
C22_FetchErrorEndsRun ==
  fetch_error =>
    /\ pc = "scrap_done"
    /\ episodes = <<>>
    /\ attempted = <<>>
    /\ tpc = "idle"
    /\ requests = <<>>
    /\ results_file = file_at_start

\* the second run over a feed with episodes, after a first run that stored
\* a record, ended on a failed request
C22_Witness ==
  /\ fetch_error
  /\ pc = "scrap_done"
  /\ feed # <<>>
  /\ scrap_runs = 2
  /\ results_file # <<>>

\* positions in the store of the records the run processes whose title's
\* existence query failed
KeptAfterFailedQuery ==
  { embed_to_process[k] : k \in 1 .. Len(embed_to_process) }
    \cap { src \in 1 .. Len(results_file) : results_file[src].title \in query_failed }

\* the run has gone through all its episodes
RunThrough ==
  embed_pc = "embed_done" /\ ~ embed_raised /\ e_idx > Len(embed_to_process)

WrittenFor(src) == { b \in BagToSet(index (-) index_at_start) : b.src = src }

\* the sub-batches of the episode in hand that start below position upto
SubBatchesBelow(upto) ==
  LET src == embed_to_process[e_idx]
      starts == { i \in 0 .. Len(vectors_to_upsert) :
                    i % UPSERT_BATCH_SIZE = 0 /\ i < upto }
  IN  { [ episode_title |-> results_file[src].title,
          episode_date |-> results_file[src].date,
          src |-> src,
          ks |-> SubSeq(vectors_to_upsert, i + 1,
                        IF i + UPSERT_BATCH_SIZE < Len(vectors_to_upsert)
                          THEN i + UPSERT_BATCH_SIZE ELSE Len(vectors_to_upsert)) ]
        : i \in starts }

\* while an episode is upserted, what the run has written for it are its
\* sub-batches below the loop's position, each one of them
PrefixWritten ==
  embed_pc = "embed_upsert" =>
    WrittenFor(embed_to_process[e_idx]) = SubBatchesBelow(batch_start)

\* a step in which an upsert call failed
UpsertFailed ==
  embed_pc = "embed_upsert" /\ embed_pc' # "embed_done" /\ index' = index

\* nothing is taken out of the index; a failed upsert ends the episode and
\* the loop goes to the next one; within a run the loop never goes back, and
\* what is written is of the episode in hand
UpsertStep ==
  /\ \A b \in BagToSet(index) : CopiesIn(b, index') >= CopiesIn(b, index)
  /\ UpsertFailed =>
       /\ embed_pc' = "embed_loop"
       /\ e_idx' = e_idx + 1
       /\ embed_to_process' = embed_to_process
  /\ (embed_pc \notin { "idle", "embed_done" } /\ embed_pc' # "idle") =>
       e_idx' >= e_idx
  /\ index' # index =>
       \A b \in BagToSet(index' (-) index) : b.src = embed_to_process[e_idx]

\* C24: in an embedding run, when the upsert of a sub-batch of an episode
\* fails, no later sub-batch of that episode is upserted, the sub-batches
\* written before stay in the index and the run goes on with the next
\* episode.
C24_FailedSubBatchEndsEpisode == [] PrefixWritten /\ [][UpsertStep]_vars

\* the second sub-batch of the first episode failed after the first was
\* written, and the run is upserting the next episode
C24_Witness ==
  /\ embed_pc = "embed_upsert"
  /\ e_idx = 2
  /\ \E u \in unwritten :
       /\ u.src = embed_to_process[1]
       /\ WrittenFor(u.src) # {}
       /\ ~ LeftOutIndexed(u)

\* the chunks of the episode whose embedding call did not raise
Succeeded == (1 .. chunks) \ embedding_errors

\* the vectors gathered for the episode are those of the chunks whose
\* embedding call did not raise, each once, in the order of the chunks
VectorsAreTheEmbedded ==
  /\ { vectors_to_upsert[m] : m \in 1 .. Len(vectors_to_upsert) } = Succeeded
  /\ \A m \in 1 .. Len(vectors_to_upsert) - 1 :
       vectors_to_upsert[m] < vectors_to_upsert[m + 1]

\* the chunks of record src that have a vector in the bag of sub-batches
ChunksIn(idx, src) ==
  UNION { { b.ks[m] : m \in 1 .. Len(b.ks) } : b \in { c \in BagToSet(idx) : c.src = src } }

\* every chunk of the episode gets its embedding call, and an upsert that
\* writes the last sub-batch has the run's vectors of the episode be those
\* of the chunks whose embedding call did not raise
EmbedStep ==
  /\ (embed_pc = "embed_loop" /\ embed_calls' # embed_calls) =>
       LET title == results_file[embed_to_process[e_idx]].title
       IN  CopiesIn(title, embed_calls') = CopiesIn(title, embed_calls) + chunks'
  /\ (embed_pc = "embed_upsert" /\ embed_pc' = "embed_loop" /\ index' # index) =>
       ChunksIn(index' (-) index_at_start, embed_to_process[e_idx]) = Succeeded

\* C25: when the embedding call for one chunk of an episode fails, that
\* chunk alone is left out: every other chunk is embedded, and the vectors
\* upserted for the episode are those of the chunks whose embedding
\* succeeded, in chunk order.
C25_FailedChunkAloneLeftOut == [] VectorsAreTheEmbedded /\ [][EmbedStep]_vars

\* an episode of several chunks whose first embedding call failed has been
\* upserted: every chunk but the first has a vector written by the run
C25_Witness ==
  /\ embed_pc = "embed_loop"
  /\ e_idx > 1
  /\ chunks > 1
  /\ embedding_errors = {1}
  /\ ChunksIn(index (-) index_at_start, embed_to_process[e_idx - 1]) = 2 .. chunks

\* C31: transcribe_audio takes the chunked path exactly when the file size
\* exceeds the threshold of 26,214,400 bytes, and the direct single-call
\* path for every size up to and including the threshold.
C31_ChunkedIffAboveThreshold ==
  t_path # "" =>
    /\ (t_path = "chunked") <=> (file_size > limit_bytes)
    /\ (t_path = "direct") <=> (file_size <= limit_bytes)

(***************************************************************************)
(* Transcription runs repeated without end over a feed that stays as it    *)
(* is. The episodes outside Unreliable never fail: their download and      *)
(* their transcription succeed at every attempt; the others fail or        *)
(* succeed at each attempt. The request for the feed succeeds.             *)
(***************************************************************************)
\* titles of the episodes that can fail
Unreliable == { TitleName(k) : k \in 2 .. MaxFeed }

\* feeds of distinct titles, oldest first or newest first
LiveFeeds == { MkFeed(n, n, p) : n \in 1 .. MaxFeed, p \in 1 .. 2 }

LiveInit ==
  /\ Q_Idle(Uninitialized)
  /\ I_Idle
  /\ info_feed = <<>>
  /\ Dl_Idle
  /\ steps = <<>>
  /\ Feed_Idle(<<>>)
  /\ index_dimension = EMBEDDING_DIMENSION
  /\ T_Idle
  /\ Scrap_Idle
  /\ Embed_Idle
  /\ feed \in LiveFeeds
  /\ results_file = <<>>
  /\ audio_files = {}

\* the episode the loop of line 202 is at
InHand == episodes_to_process[ep_idx]

\* the step is no failure of an episode that never fails: no exception is
\* caught in transcribe_audio and the text it returns is not empty
Dependable ==
  InHand.title \notin Unreliable =>
    /\ ~ t_error'
    /\ transcription' = None \/ Truthy(transcription')

\* a run starts, whatever the number of runs before it
Live_Start == Scrap_Begin /\ ~ fetch_error' /\ UNCHANGED scrap_runs

\* line 208 (the download failed) is reached for the others only
Live_Download ==
  Scrap_Download /\ (ep_idx' # ep_idx => InHand.title \in Unreliable)

LiveFrame == UNCHANGED << evars, embed_runs, toolvars >>

LiveNext ==
  \/ Live_Start /\ LiveFrame
  \/ Live_Download /\ LiveFrame
  \/ T_SizeCheck(RunSizes) /\ Dependable /\ UNCHANGED svars /\ LiveFrame
  \/ T_Direct(RunTexts) /\ Dependable /\ UNCHANGED svars /\ LiveFrame
  \/ T_Probe(RunDurations) /\ Dependable /\ UNCHANGED svars /\ LiveFrame
  \/ T_Extract /\ Dependable /\ UNCHANGED svars /\ LiveFrame
  \/ T_Whisper(RunTexts) /\ Dependable /\ UNCHANGED svars /\ LiveFrame
  \/ T_Finally /\ Dependable /\ UNCHANGED svars /\ LiveFrame
  \/ Scrap_Record /\ LiveFrame
  \/ Scrap_Save /\ LiveFrame
  \/ Scrap_Exit /\ LiveFrame

\* the script is run again and again, and a run that has a step to take
\* takes it
SpecLive == LiveInit /\ [][LiveNext]_vars /\ WF_vars(LiveNext)

\* C32: under repeated transcription runs over an unchanging feed, every
\* admitted episode whose own download and transcription succeed whenever
\* they are attempted is eventually recorded in the store, even if other
\* episodes fail on every attempt.
C32_ReliableEventuallyRecorded ==
  <> ( \A k \in 1 .. Len(feed) :
          feed[k].title \notin Unreliable => feed[k].title \in Titles(results_file) )

\* C33: within a single embedding run each episode title is chunked,
\* embedded and upserted at most once, even when the store holds several
\* records with that title.
C33_TitleOncePerRun ==
  \A c1, c2 \in record_calls :
     ( /\ c1[2] = c2[2]
       /\ results_file[c1[1]].title = results_file[c2[1]].title ) => c1[1] = c2[1]

====
